---- MODULE Spec2Model ----
(***************************************************************************)
(* Portkey CLI: configuration layers, precedence resolution (discover),    *)
(* and the routing header written by setup and parsed back by              *)
(* readExistingConfig.                                                     *)
(*                                                                         *)
(* A JavaScript string is a sequence of one-character strings.  A value    *)
(* that JavaScript code may find to be something else than a string (a     *)
(* value read from a JSON document, a lookup in process.env) is a tagged   *)
(* record: Str(s), Num(n), Null, Obj(f), Undefined.                        *)
(***************************************************************************)
EXTENDS Integers, Sequences, FiniteSets, TLC

VARIABLES
    files,      \* the file system: path -> Missing | Garbage | Doc(json) | Text(items)
    env,        \* process.env: variable name -> string; a name outside its domain is unset
    gitDirs,    \* the directories that hold a .git entry
    claudeDirs, \* the directories that hold a .claude entry
    pc,         \* position of the command in progress ("idle" when none is)
    args,       \* the parsed command line of the setup run in progress
    run,        \* the local variables of the setup run in progress (doSetup)
    existing,   \* what the last readExistingConfig call returned, or threw
    report,     \* what the last doDiscover call printed
    probe,      \* the last call of a file or directory helper, with what it returned
    commands    \* how many commands have run to their end and returned

vars == <<files, env, gitDirs, claudeDirs, pc, args, run, existing, report, probe, commands>>

----------------------------------------------------------------------------
(* Bounds of the model *)

\* Most commands run one after the other on one machine.
MaxCommands == 3

\* Longest provider slug / config id drawn from the small alphabets.
MaxInputLen == 2

----------------------------------------------------------------------------
(* String primitives: the methods of String.prototype the program calls *)

StartsWith(s, p) ==
    /\ Len(p) <= Len(s)
    /\ SubSeq(s, 1, Len(p)) = p

EndsWith(s, p) ==
    /\ Len(p) <= Len(s)
    /\ SubSeq(s, Len(s) - Len(p) + 1, Len(s)) = p

\* s.includes(sub)
Includes(s, sub) ==
    \E i \in 1..(Len(s) - Len(sub) + 1) : SubSeq(s, i, i + Len(sub) - 1) = sub

\* s.slice(from) with from >= 0 counted from 0
SliceFrom(s, from) == SubSeq(s, from + 1, Len(s))

\* s.slice(0, n)
SliceHead(s, n) == SubSeq(s, 1, IF n < Len(s) THEN n ELSE Len(s))

\* s.slice(-n)
SliceTail(s, n) == SubSeq(s, IF Len(s) - n + 1 > 1 THEN Len(s) - n + 1 ELSE 1, Len(s))

\* the regular expression class \s, over the characters the model uses
IsSpace(c) == c \in {" ", "\n", "\t", "\r"}

\* s.replace(/^@+/, ""): drop every leading @
RECURSIVE StripLeadingAts(_)
StripLeadingAts(s) ==
    IF s # <<>> /\ Head(s) = "@" THEN StripLeadingAts(Tail(s)) ELSE s

\* the longest run of non-space characters of s that starts at position i
NonSpaceRun(s, i) ==
    LET stops == { j \in i..Len(s) : IsSpace(s[j]) }
        stop == IF stops = {} THEN Len(s) + 1
                ELSE CHOOSE j \in stops : \A k \in stops : j <= k
    IN  SubSeq(s, i, stop - 1)

\* The positions where the regular expression  key(\S+)  matches in s.
MatchPositions(s, key) ==
    { i \in 1..(Len(s) - Len(key)) :
        /\ SubSeq(s, i, i + Len(key) - 1) = key
        /\ ~IsSpace(s[i + Len(key)]) }

\* s.match(/key(\S+)/)?.[1] || "" : the capture of the leftmost match, else "".
MatchToken(s, key) ==
    IF MatchPositions(s, key) = {} THEN <<>>
    ELSE LET i == CHOOSE p \in MatchPositions(s, key) :
                      \A q \in MatchPositions(s, key) : p <= q
         IN  NonSpaceRun(s, i + Len(key))

\* s.replace(/pat/g, rep) for a literal pattern and a replacement without $:
\* the leftmost occurrence is replaced, then those of the rest
RECURSIVE ReplaceAll(_, _, _)
ReplaceAll(s, pat, rep) ==
    LET hits == { i \in 1..(Len(s) - Len(pat) + 1) : SubSeq(s, i, i + Len(pat) - 1) = pat }
    IN  IF hits = {} THEN s
        ELSE LET i == CHOOSE h \in hits : \A k \in hits : h <= k
             IN  SubSeq(s, 1, i - 1) \o rep
                     \o ReplaceAll(SubSeq(s, i + Len(pat), Len(s)), pat, rep)

\* parts.join(sep)
RECURSIVE Join(_, _)
Join(parts, sep) ==
    IF parts = <<>> THEN <<>>
    ELSE IF Len(parts) = 1 THEN parts[1]
    ELSE parts[1] \o sep \o Join(Tail(parts), sep)

\* All strings over alphabet of length 0..n
RECURSIVE StringsUpTo(_, _)
StringsUpTo(alphabet, n) ==
    IF n = 0 THEN { <<>> }
    ELSE LET shorter == StringsUpTo(alphabet, n - 1)
         IN  shorter \cup { <<c>> \o s : c \in alphabet, s \in { t \in shorter : Len(t) = n - 1 } }

----------------------------------------------------------------------------
(* JavaScript values *)

Undefined == [t |-> "undefined"]
Null == [t |-> "null"]
Str(s) == [t |-> "str", s |-> s]
Num(n) == [t |-> "num", n |-> n]
Obj(f) == [t |-> "obj", o |-> f]

\* {}
EmptyObject == Obj([n \in {} |-> Null])

\* Boolean(v)
Truthy(v) ==
    CASE v.t = "str" -> v.s # <<>>
      [] v.t = "num" -> v.n # 0
      [] v.t = "obj" -> TRUE
      [] OTHER -> FALSE

Digits == <<"0", "1", "2", "3", "4", "5", "6", "7", "8", "9">>

\* String(n) for a natural number
RECURSIVE NatToString(_)
NatToString(n) ==
    IF n < 10 THEN <<Digits[n + 1]>>
    ELSE NatToString(n \div 10) \o <<Digits[(n % 10) + 1]>>

\* String(v) of a defined, non-null value
JsString(v) ==
    CASE v.t = "str" -> v.s
      [] v.t = "num" -> NatToString(v.n)
      [] OTHER -> <<"[", "o", "b", "j", "e", "c", "t", " ", "O", "b", "j", "e", "c", "t", "]">>

----------------------------------------------------------------------------
(* Literals of the program *)

XPortkeyProvider ==
    <<"x", "-", "p", "o", "r", "t", "k", "e", "y", "-",
      "p", "r", "o", "v", "i", "d", "e", "r", ":">>

XPortkeyConfig ==
    <<"x", "-", "p", "o", "r", "t", "k", "e", "y", "-",
      "c", "o", "n", "f", "i", "g", ":">>

XPortkeyApiKey ==
    <<"x", "-", "p", "o", "r", "t", "k", "e", "y", "-",
      "a", "p", "i", "-", "k", "e", "y", ":">>

\* the text ${PORTKEY_API_KEY}
KeyPlaceholder ==
    <<"$", "{", "P", "O", "R", "T", "K", "E", "Y", "_",
      "A", "P", "I", "_", "K", "E", "Y", "}">>

PcPrefix == <<"p", "c", "-">>

PORTKEY_GATEWAY ==
    <<"h", "t", "t", "p", "s", ":", "/", "/", "a", "p", "i", ".",
      "p", "o", "r", "t", "k", "e", "y", ".", "a", "i">>

PortkeyWord == <<"p", "o", "r", "t", "k", "e", "y">>

VARS ==
    <<"ANTHROPIC_BASE_URL", "ANTHROPIC_API_KEY", "ANTHROPIC_AUTH_TOKEN",
      "ANTHROPIC_CUSTOM_HEADERS", "ANTHROPIC_MODEL", "PORTKEY_API_KEY",
      "CLAUDE_CODE_USE_BEDROCK", "CLAUDE_CODE_USE_VERTEX",
      "CLAUDE_CODE_USE_FOUNDRY">>

VarNames == { VARS[i] : i \in 1..Len(VARS) }

\* SENSITIVE.test(varName) for /API_KEY|AUTH|HEADERS/
SENSITIVE(varName) ==
    varName \in { "ANTHROPIC_API_KEY", "ANTHROPIC_AUTH_TOKEN",
                  "ANTHROPIC_CUSTOM_HEADERS", "PORTKEY_API_KEY" }

LAYERS == <<"enterprise", "global", "project-shared", "project-local">>

Precedence == <<"shell", "enterprise", "project-local", "project-shared", "global">>

Dots == <<"·", "·", "·", "·">>

Stars == <<"*", "*", "*">>

mask(key) ==
    IF key = <<>> THEN Stars
    ELSE IF Len(key) > 8 THEN SliceHead(key, 4) \o Dots \o SliceTail(key, 4)
    ELSE IF Len(key) > 4 THEN SliceHead(key, 2) \o Dots \o SliceTail(key, 2)
    ELSE Stars

----------------------------------------------------------------------------
(* The file system.  A path is the sequence of its components; path.join   *)
(* is concatenation and path.dirname drops the last component (the root    *)
(* directory <<>> is its own parent).  null, where a path is expected, is  *)
(* NoPath.                                                                  *)

NoPath == <<"(null)">>

dirname(p) == IF p = <<>> THEN <<>> ELSE SubSeq(p, 1, Len(p) - 1)

\* os.homedir()
Home == <<"home", "u">>

\* process.cwd()
Cwd == <<"home", "u", "proj">>

Missing == [k |-> "missing"]
Garbage == [k |-> "garbage"]
Doc(v) == [k |-> "json", v |-> v]
Text(items) == [k |-> "text", items |-> items]

\* fs.existsSync(p) for a file path
existsSync(fs, p) == p \in DOMAIN fs /\ fs[p].k # "missing"

\* obj?.[key]
JsonGet(obj, key) ==
    IF obj.t = "obj" /\ key \in DOMAIN obj.o THEN obj.o[key] ELSE Undefined

RECURSIVE JsonWalk(_, _)
JsonWalk(obj, keyPath) ==
    IF keyPath = <<>> THEN obj
    ELSE JsonWalk(JsonGet(obj, Head(keyPath)), Tail(keyPath))

\* what a caller gets from a call that throws
Raised == [t |-> "raised"]

\* the body of jsonRead without its try and catch
jsonReadUncaught(fs, filePath, keyPath) ==
    IF filePath \in DOMAIN fs /\ fs[filePath].k = "json"
    THEN JsonWalk(fs[filePath].v, keyPath)
    ELSE Raised

\* jsonRead(filePath, keyPath), keyPath already split at the dots
jsonRead(fs, filePath, keyPath) ==
    IF filePath \in DOMAIN fs /\ fs[filePath].k = "json"
    THEN JsonWalk(fs[filePath].v, keyPath)
    ELSE Undefined

\* the walk with a .claude entry counted in the home directory too
findProjectRootFromAnyClaude(dir, git, claude) ==
    LET hits == { n \in 1..Len(dir) : SubSeq(dir, 1, n) \in git \cup claude }
    IN  IF hits = {} THEN NoPath
        ELSE SubSeq(dir, 1, CHOOSE n \in hits : \A m \in hits : m <= n)

\* findProjectRoot(startDir): the loop, from directory dir upward
RECURSIVE findProjectRootFrom(_, _, _)
findProjectRootFrom(dir, git, claude) ==
    IF dir = dirname(dir) THEN NoPath
    ELSE IF dir \in git THEN dir
    ELSE IF dir \in claude /\ dir # Home THEN dir
    ELSE findProjectRootFrom(dirname(dir), git, claude)

findProjectRoot(git, claude) == findProjectRootFrom(Cwd, git, claude)

EnterpriseCandidates ==
    << <<"Library", "Application Support", "ClaudeCode", "managed-settings.json">>,
       <<"etc", "claude-code", "managed-settings.json">> >>

findEnterprisePath(fs) ==
    LET found == SelectSeq(EnterpriseCandidates, LAMBDA p : existsSync(fs, p))
    IN  IF found = <<>> THEN NoPath ELSE found[1]

getConfigPath(fs, layer, projectRoot) ==
    CASE layer = "enterprise" -> findEnterprisePath(fs)
      [] layer = "global" -> Home \o <<".claude", "settings.json">>
      [] layer = "project-shared" ->
            IF projectRoot # NoPath
            THEN projectRoot \o <<".claude", "settings.json">> ELSE NoPath
      [] layer = "project-local" ->
            IF projectRoot # NoPath
            THEN projectRoot \o <<".claude", "settings.local.json">> ELSE NoPath
      [] OTHER -> NoPath

\* detectShellRc() for SHELL=/bin/bash with ~/.bashrc present
detectShellRc == Home \o <<".bashrc">>

getSettingsPath(location, projectRoot) ==
    CASE location = "project-local" -> projectRoot \o <<".claude", "settings.local.json">>
      [] location = "project-shared" -> projectRoot \o <<".claude", "settings.json">>
      [] location = "global" -> Home \o <<".claude", "settings.json">>
      [] location = "env" -> detectShellRc
      [] OTHER -> Home \o <<".claude", "settings.json">>

\* The directories findProjectRoot can return, and every file the program names.
RootDirs == { Cwd, Home, dirname(Home) }

SettingsPaths ==
    { d \o <<".claude", n>> : d \in RootDirs, n \in {"settings.json", "settings.local.json"} }

AllPaths ==
    SettingsPaths \cup { EnterpriseCandidates[i] : i \in 1..Len(EnterpriseCandidates) }
        \cup { detectShellRc }

----------------------------------------------------------------------------
(* discover *)

\* process.env[name]: a string, <<>> when the variable is unset
EnvGet(e, name) == IF name \in DOMAIN e THEN e[name] ELSE <<>>

\* lines 96-105: the file-backed layers that define varName, in LAYERS order
FileSources(fs, root, varName) ==
    SelectSeq(LAYERS, LAMBDA layer :
        LET filePath == getConfigPath(fs, layer, root)
            val == jsonRead(fs, filePath, <<"env", varName>>)
        IN  /\ filePath # NoPath
            /\ existsSync(fs, filePath)
            /\ val # Undefined
            /\ val # Null)

\* sources with the shell counted whenever the variable is in the environment
SourcesShellWhenExported(fs, e, root, varName) ==
    FileSources(fs, root, varName)
        \o (IF varName \in DOMAIN e THEN <<"shell">> ELSE <<>>)

\* lines 96-112: sources
Sources(fs, e, root, varName) ==
    FileSources(fs, root, varName)
        \o (IF EnvGet(e, varName) # <<>> THEN <<"shell">> ELSE <<>>)

\* lines 96-112: values[src], undefined when src is no source
ValueOf(fs, e, root, varName, src) ==
    IF src = "shell"
    THEN (IF EnvGet(e, varName) # <<>> THEN Str(EnvGet(e, varName)) ELSE Undefined)
    ELSE IF \E i \in 1..Len(FileSources(fs, root, varName)) :
                FileSources(fs, root, varName)[i] = src
         THEN Str(JsString(jsonRead(fs, getConfigPath(fs, src, root), <<"env", varName>>)))
         ELSE Undefined

\* lines 121-131: the first src of precedence with a truthy values[src]
WinnerSource(fs, e, root, varName) ==
    LET truthy == SelectSeq(Precedence, LAMBDA src :
                      Truthy(ValueOf(fs, e, root, varName, src)))
    IN  IF truthy = <<>> THEN "" ELSE truthy[1]

\* ResolveVar with the conflict decided by value: flagged only when two
\* layers hold different values.
ResolveVarByValue(fs, e, root, varName) ==
    LET sources == Sources(fs, e, root, varName)
        wsrc == WinnerSource(fs, e, root, varName)
        winner == IF wsrc = "" THEN <<>> ELSE ValueOf(fs, e, root, varName, wsrc).s
    IN  IF sources = <<>>
        THEN [set |-> FALSE, sources |-> <<>>, wsrc |-> "", winner |-> <<>>,
              display |-> <<>>, conflicting |-> FALSE]
        ELSE [set |-> TRUE, sources |-> sources, wsrc |-> wsrc, winner |-> winner,
              display |-> IF SENSITIVE(varName) THEN mask(winner) ELSE winner,
              conflicting |->
                  \E i, j \in 1..Len(sources) :
                      ValueOf(fs, e, root, varName, sources[i])
                          # ValueOf(fs, e, root, varName, sources[j])]

\* lines 92-146: what the Variable Resolution note says of varName
ResolveVar(fs, e, root, varName) ==
    LET sources == Sources(fs, e, root, varName)
        wsrc == WinnerSource(fs, e, root, varName)
        winner == IF wsrc = "" THEN <<>> ELSE ValueOf(fs, e, root, varName, wsrc).s
    IN  IF sources = <<>>
        THEN [set |-> FALSE, sources |-> <<>>, wsrc |-> "", winner |-> <<>>,
              display |-> <<>>, conflicting |-> FALSE]
        ELSE [set |-> TRUE, sources |-> sources, wsrc |-> wsrc, winner |-> winner,
              display |-> IF SENSITIVE(varName) THEN mask(winner) ELSE winner,
              conflicting |-> Len(sources) > 1]

\* lines 90, 135-136: conflictCount after the loop over VARS
ConflictCount(fs, e, root) ==
    Cardinality({ i \in 1..Len(VARS) : Len(Sources(fs, e, root, VARS[i])) > 1 })

\* the first truthy jsonRead(f, keyPath) over the existing files of checkOrder
RECURSIVE FirstTruthy(_, _, _)
FirstTruthy(fs, checkOrder, keyPath) ==
    IF checkOrder = <<>> THEN Undefined
    ELSE IF /\ existsSync(fs, Head(checkOrder))
            /\ Truthy(jsonRead(fs, Head(checkOrder), keyPath))
         THEN jsonRead(fs, Head(checkOrder), keyPath)
         ELSE FirstTruthy(fs, Tail(checkOrder), keyPath)

\* [enterprise, project-local, project-shared, global].filter(Boolean)
HealthCheckOrder(fs, root) ==
    SelectSeq(<< getConfigPath(fs, "enterprise", root),
                 getConfigPath(fs, "project-local", root),
                 getConfigPath(fs, "project-shared", root),
                 getConfigPath(fs, "global", root) >>,
              LAMBDA f : f # NoPath)

\* lines 153-170: base
HealthBase(fs, e, root) ==
    IF EnvGet(e, "ANTHROPIC_BASE_URL") # <<>>
    THEN Str(EnvGet(e, "ANTHROPIC_BASE_URL"))
    ELSE LET val == FirstTruthy(fs, HealthCheckOrder(fs, root), <<"env", "ANTHROPIC_BASE_URL">>)
         IN  IF val = Undefined THEN Str(<<>>) ELSE val

\* lines 172-180: the health line for base; "TypeError" when base.includes is
\* called on a value that is no string
HealthBaseKind(base) ==
    IF base = Str(PORTKEY_GATEWAY) THEN "gateway"
    ELSE IF ~Truthy(base) THEN "unset"
    ELSE IF base.t # "str" THEN "TypeError"
    ELSE IF Includes(base.s, PortkeyWord) THEN "custom"
    ELSE "unrecognized"

\* lines 183-198: hdrs
HealthHdrs(fs, e, root) ==
    LET val == FirstTruthy(fs, HealthCheckOrder(fs, root), <<"env", "ANTHROPIC_CUSTOM_HEADERS">>)
    IN  IF val = Undefined THEN Str(EnvGet(e, "ANTHROPIC_CUSTOM_HEADERS")) ELSE val

\* lines 200-206: the routing line; "TypeError" when hdrs is no string
HealthRouting(hdrs) ==
    IF hdrs.t # "str" THEN [kind |-> "TypeError", val |-> <<>>]
    ELSE IF Includes(hdrs.s, XPortkeyConfig)
         THEN [kind |-> "config", val |-> MatchToken(hdrs.s, XPortkeyConfig)]
    ELSE IF Includes(hdrs.s, XPortkeyProvider)
         THEN [kind |-> "provider", val |-> MatchToken(hdrs.s, XPortkeyProvider)]
    ELSE [kind |-> "", val |-> <<>>]

NoReport == [ran |-> FALSE]

\* doDiscover(): the Variable Resolution note, the Routing Health note and the
\* summary; raised is TRUE when the run ended in a TypeError, after the
\* Variable Resolution note and before the summary.
DiscoverReport(fs, e, git, claude) ==
    LET root == findProjectRoot(git, claude)
        base == HealthBase(fs, e, root)
        hdrs == HealthHdrs(fs, e, root)
        raised == \/ HealthBaseKind(base) = "TypeError"
                  \/ HealthRouting(hdrs).kind = "TypeError"
    IN  [ran |-> TRUE,
         projectRoot |-> root,
         resolution |-> [v \in VarNames |-> ResolveVar(fs, e, root, v)],
         raised |-> raised,
         baseKind |-> HealthBaseKind(base),
         routing |-> IF HealthBaseKind(base) = "TypeError"
                     THEN [kind |-> "", val |-> <<>>] ELSE HealthRouting(hdrs),
         bypass |-> IF raised THEN {}
                    ELSE { f \in {"CLAUDE_CODE_USE_BEDROCK", "CLAUDE_CODE_USE_VERTEX",
                                  "CLAUDE_CODE_USE_FOUNDRY"} : EnvGet(e, f) = <<"1">> },
         conflictCount |-> IF raised THEN -1 ELSE ConflictCount(fs, e, root),
         routingActive |-> ~raised /\ base = Str(PORTKEY_GATEWAY)]

DoDiscover ==
    /\ pc = "idle"
    /\ report' = DiscoverReport(files, env, gitDirs, claudeDirs)
    /\ UNCHANGED <<files, env, gitDirs, claudeDirs, pc, args, run, existing, probe, commands>>

----------------------------------------------------------------------------
(* JSON.stringify and Buffer.from(text).toString("base64") *)

\* the ASCII characters from the space (code 32) to _ (code 95)
AsciiFromSpace ==
    <<" ", "!", "\"", "#", "$", "%", "&", "'", "(", ")", "*", "+", ",", "-", ".", "/",
      "0", "1", "2", "3", "4", "5", "6", "7", "8", "9", ":", ";", "<", "=", ">", "?",
      "@", "A", "B", "C", "D", "E", "F", "G", "H", "I", "J", "K", "L", "M", "N", "O",
      "P", "Q", "R", "S", "T", "U", "V", "W", "X", "Y", "Z", "[", "\\", "]", "^", "_">>

\* the ASCII characters from a (code 97) to ~ (code 126)
AsciiFromLowerA ==
    <<"a", "b", "c", "d", "e", "f", "g", "h", "i", "j", "k", "l", "m", "n", "o", "p",
      "q", "r", "s", "t", "u", "v", "w", "x", "y", "z", "{", "|", "}", "~">>

\* the UTF-8 byte of a printable ASCII character
CharCode(c) ==
    IF \E i \in 1..Len(AsciiFromLowerA) : AsciiFromLowerA[i] = c
    THEN 96 + (CHOOSE i \in 1..Len(AsciiFromLowerA) : AsciiFromLowerA[i] = c)
    ELSE 31 + (CHOOSE i \in 1..Len(AsciiFromSpace) : AsciiFromSpace[i] = c)

Base64Alphabet ==
    <<"A", "B", "C", "D", "E", "F", "G", "H", "I", "J", "K", "L", "M", "N", "O", "P",
      "Q", "R", "S", "T", "U", "V", "W", "X", "Y", "Z", "a", "b", "c", "d", "e", "f",
      "g", "h", "i", "j", "k", "l", "m", "n", "o", "p", "q", "r", "s", "t", "u", "v",
      "w", "x", "y", "z", "0", "1", "2", "3", "4", "5", "6", "7", "8", "9", "+", "/">>

\* the base64 text of a sequence of bytes
RECURSIVE Base64OfBytes(_)
Base64OfBytes(bytes) ==
    IF bytes = <<>> THEN <<>>
    ELSE IF Len(bytes) = 1
    THEN << Base64Alphabet[(bytes[1] \div 4) + 1],
            Base64Alphabet[((bytes[1] % 4) * 16) + 1],
            "=", "=" >>
    ELSE IF Len(bytes) = 2
    THEN << Base64Alphabet[(bytes[1] \div 4) + 1],
            Base64Alphabet[((bytes[1] % 4) * 16 + (bytes[2] \div 16)) + 1],
            Base64Alphabet[((bytes[2] % 16) * 4) + 1],
            "=" >>
    ELSE << Base64Alphabet[(bytes[1] \div 4) + 1],
            Base64Alphabet[((bytes[1] % 4) * 16 + (bytes[2] \div 16)) + 1],
            Base64Alphabet[((bytes[2] % 16) * 4 + (bytes[3] \div 64)) + 1],
            Base64Alphabet[(bytes[3] % 64) + 1] >>
         \o Base64OfBytes(SubSeq(bytes, 4, Len(bytes)))

\* Buffer.from(text).toString("base64") for a text of printable ASCII
Base64(text) == Base64OfBytes([i \in 1..Len(text) |-> CharCode(text[i])])

\* JSON.stringify of a string without a quote, a backslash or a control character
JsonQuote(s) == <<"\"">> \o s \o <<"\"">>

\* JSON.stringify({ [key]: names }) for an array of strings
JsonStringifyList(key, names) ==
    <<"{">> \o JsonQuote(key) \o <<":", "[">>
        \o Join([i \in 1..Len(names) |-> JsonQuote(names[i])], <<",">>)
        \o <<"]", "}">>

ForwardHeadersKey ==
    <<"f", "o", "r", "w", "a", "r", "d", "_", "h", "e", "a", "d", "e", "r", "s">>

\* the names setup.js lines 322-324 list under forward_headers
ForwardedHeaderNames ==
    << <<"a", "u", "t", "h", "o", "r", "i", "z", "a", "t", "i", "o", "n">>,
       <<"a", "n", "t", "h", "r", "o", "p", "i", "c", "-", "b", "e", "t", "a">> >>

\* setup.js lines 322-325: configB64
ConfigB64 == Base64(JsonStringifyList(ForwardHeadersKey, ForwardedHeaderNames))

----------------------------------------------------------------------------
(* readExistingConfig *)

\* the length below which an x-portkey-config value is taken for a config id
ConfigIdMaxLen == 30

\* lines 360-376 with the provider and config tests in the other order
ParseRoutingConfigFirst(headers) ==
    IF Includes(headers, XPortkeyConfig)
    THEN LET cfgVal == MatchToken(headers, XPortkeyConfig)
         IN  IF StartsWith(cfgVal, PcPrefix) \/ Len(cfgVal) < ConfigIdMaxLen
             THEN [mode |-> "config", provider |-> <<>>, configId |-> cfgVal]
             ELSE [mode |-> "oauth", provider |-> <<>>, configId |-> <<>>]
    ELSE IF Includes(headers, XPortkeyProvider)
    THEN [mode |-> "provider",
          provider |-> StripLeadingAts(MatchToken(headers, XPortkeyProvider)),
          configId |-> <<>>]
    ELSE [mode |-> "", provider |-> <<>>, configId |-> <<>>]

\* lines 360-376: mode, provider and configId parsed from the headers string
ParseRouting(headers) ==
    IF Includes(headers, XPortkeyProvider)
    THEN [mode |-> "provider",
          provider |-> StripLeadingAts(MatchToken(headers, XPortkeyProvider)),
          configId |-> <<>>]
    ELSE IF Includes(headers, XPortkeyConfig)
    THEN LET cfgVal == MatchToken(headers, XPortkeyConfig)
         IN  IF StartsWith(cfgVal, PcPrefix) \/ Len(cfgVal) < ConfigIdMaxLen
             THEN [mode |-> "config", provider |-> <<>>, configId |-> cfgVal]
             ELSE [mode |-> "oauth", provider |-> <<>>, configId |-> <<>>]
    ELSE [mode |-> "", provider |-> <<>>, configId |-> <<>>]

\* v || ""
OrEmpty(v) == IF Truthy(v) THEN v ELSE Str(<<>>)

\* lines 346-350: checkOrder
ExistingCheckOrder(fs, root) ==
    SelectSeq(<< [layer |-> "project-local", path |-> getConfigPath(fs, "project-local", root)],
                 [layer |-> "project-shared", path |-> getConfigPath(fs, "project-shared", root)],
                 [layer |-> "global", path |-> getConfigPath(fs, "global", root)] >>,
              LAMBDA c : c.path # NoPath /\ existsSync(fs, c.path))

\* lines 352-395: the loop over checkOrder.  threw is TRUE when
\* headers.includes is called on a value that is no string (a TypeError).
RECURSIVE ReadConfigFrom(_, _)
ReadConfigFrom(fs, checkOrder) ==
    IF checkOrder = <<>> THEN [called |-> TRUE, threw |-> FALSE, found |-> FALSE]
    ELSE LET filePath == Head(checkOrder).path
             baseUrl == jsonRead(fs, filePath, <<"env", "ANTHROPIC_BASE_URL">>)
             authToken == OrEmpty(jsonRead(fs, filePath, <<"env", "ANTHROPIC_AUTH_TOKEN">>))
             headers == OrEmpty(jsonRead(fs, filePath, <<"env", "ANTHROPIC_CUSTOM_HEADERS">>))
             model == OrEmpty(jsonRead(fs, filePath, <<"model">>))
         IN  IF ~Truthy(baseUrl) THEN ReadConfigFrom(fs, Tail(checkOrder))
             ELSE IF headers.t # "str"
             THEN [called |-> TRUE, threw |-> TRUE, found |-> FALSE]
             ELSE [called |-> TRUE, threw |-> FALSE, found |-> TRUE,
                   filePath |-> filePath,
                   location |-> Head(checkOrder).layer,
                   portkeyKey |-> authToken,
                   gateway |-> baseUrl,
                   mode |-> ParseRouting(headers.s).mode,
                   provider |-> ParseRouting(headers.s).provider,
                   configId |-> ParseRouting(headers.s).configId,
                   model |-> model,
                   headers |-> headers.s]

readExistingConfig(fs, git, claude) ==
    ReadConfigFrom(fs, ExistingCheckOrder(fs, findProjectRoot(git, claude)))

\* const existing = readExistingConfig(), as doVerify and doSetup call it
ReadExisting ==
    /\ pc = "idle"
    /\ existing' = readExistingConfig(files, gitDirs, claudeDirs)
    /\ UNCHANGED <<files, env, gitDirs, claudeDirs, pc, args, run, report, probe, commands>>

----------------------------------------------------------------------------
(* verify: the values doVerify resolves *)

\* [project-local, project-shared, global].filter(Boolean)
VerifyCheckOrder(fs, root) ==
    SelectSeq(<< getConfigPath(fs, "project-local", root),
                 getConfigPath(fs, "project-shared", root),
                 getConfigPath(fs, "global", root) >>,
              LAMBDA f : f # NoPath)

\* lines 21-41: pk
VerifyKey(fs, e, root) ==
    IF EnvGet(e, "PORTKEY_API_KEY") # <<>> THEN Str(EnvGet(e, "PORTKEY_API_KEY"))
    ELSE IF EnvGet(e, "ANTHROPIC_AUTH_TOKEN") # <<>>
    THEN Str(EnvGet(e, "ANTHROPIC_AUTH_TOKEN"))
    ELSE LET val == FirstTruthy(fs, VerifyCheckOrder(fs, root), <<"env", "ANTHROPIC_AUTH_TOKEN">>)
         IN  IF val = Undefined THEN Str(<<>>) ELSE val

\* lines 51-68: customHeaders
VerifyCustomHeaders(fs, e, root) ==
    IF EnvGet(e, "ANTHROPIC_CUSTOM_HEADERS") # <<>>
    THEN Str(EnvGet(e, "ANTHROPIC_CUSTOM_HEADERS"))
    ELSE LET val == FirstTruthy(fs, VerifyCheckOrder(fs, root),
                                <<"env", "ANTHROPIC_CUSTOM_HEADERS">>)
         IN  IF val = Undefined THEN Str(<<>>) ELSE val

\* lines 70-87: the routing doVerify takes from customHeaders; "TypeError"
\* when customHeaders is no string; refused is TRUE when doVerify ends there
\* with an error message
VerifyRouting(hdrs) ==
    IF hdrs.t # "str" THEN [kind |-> "TypeError", val |-> <<>>, refused |-> FALSE]
    ELSE IF Includes(hdrs.s, XPortkeyConfig)
         THEN [kind |-> "config", val |-> MatchToken(hdrs.s, XPortkeyConfig),
               refused |-> FALSE]
    ELSE IF Includes(hdrs.s, XPortkeyProvider)
         THEN [kind |-> "provider", val |-> MatchToken(hdrs.s, XPortkeyProvider),
               refused |-> MatchToken(hdrs.s, XPortkeyProvider) \in { <<>>, <<"@">> }]
    ELSE [kind |-> "", val |-> <<>>, refused |-> TRUE]

----------------------------------------------------------------------------
(* Strings the specifications draw header values and inputs from *)

\* s.repeat(n)
RECURSIVE Rep(_, _)
Rep(s, n) == IF n = 0 THEN <<>> ELSE s \o Rep(s, n - 1)

KeyA == <<"p", "k", "A">>

ProviderTokenValues == { <<>>, <<"@">>, <<"a">>, <<"@", "a">> }

ConfigTokenValues ==
    { <<>>, PcPrefix \o <<"1">>, <<"c", "f", "g">>,
      Rep(<<"c">>, ConfigIdMaxLen - 1), Rep(<<"c">>, ConfigIdMaxLen),
      PcPrefix \o Rep(<<"c">>, ConfigIdMaxLen), ConfigB64 }

----------------------------------------------------------------------------
(* setup: helpers *)

\* normalizeProvider with the leading @ characters left in place
normalizeProviderKeepAts(slug) == <<"@">> \o slug

normalizeProvider(slug) == <<"@">> \o StripLeadingAts(slug)

\* s.toLowerCase() for a string of ASCII characters
ToLower(s) ==
    [i \in 1..Len(s) |->
        IF (\E k \in 1..Len(AsciiFromSpace) : AsciiFromSpace[k] = s[i])
              /\ CharCode(s[i]) >= 65 /\ CharCode(s[i]) <= 90
        THEN AsciiFromLowerA[CharCode(s[i]) - 64]
        ELSE s[i]]

Bedrock ==
    <<"b", "e", "d", "r", "o", "c", "k">>

BEDROCK_VERTEX_TYPES ==
    { Bedrock,
      <<"v", "e", "r", "t", "e", "x", "_", "a", "i">>,
      <<"v", "e", "r", "t", "e", "x", "-", "a", "i">>,
      <<"g", "o", "o", "g", "l", "e">> }

DefaultOpusModel ==
    <<"c", "l", "a", "u", "d", "e", "-", "o", "p", "u", "s", "-", "4", "-",
      "2", "0", "2", "5", "0", "5", "1", "4">>

DefaultSonnetModel ==
    <<"c", "l", "a", "u", "d", "e", "-", "s", "o", "n", "n", "e", "t", "-",
      "4", "-", "2", "0", "2", "5", "0", "5", "1", "4">>

DefaultHaikuModel ==
    <<"c", "l", "a", "u", "d", "e", "-", "h", "a", "i", "k", "u", "-", "4",
      "-", "2", "0", "2", "5", "0", "5", "1", "4">>

OpusWord == <<"o", "p", "u", "s">>
SonnetWord == <<"s", "o", "n", "n", "e", "t">>
HaikuWord == <<"h", "a", "i", "k", "u">>

\* a || b for strings
OrElse(a, b) == IF a # <<>> THEN a ELSE b

\* fetchedModels.find((m) => m.id.toLowerCase().includes(tier))?.id || ""
findModel(availableModels, tier) ==
    LET hits == SelectSeq(availableModels, LAMBDA id : Includes(ToLower(id), tier))
    IN  IF hits = <<>> THEN <<>> ELSE hits[1]

\* JSON.parse(fs.readFileSync(filePath)) inside try, data = {} otherwise
ParsedOrFresh(fs, filePath) ==
    IF filePath \in DOMAIN fs /\ fs[filePath].k = "json"
    THEN fs[filePath].v ELSE Obj([n \in {} |-> Null])

\* target with the members of source assigned over it
Assign(target, source) ==
    [n \in DOMAIN target \cup DOMAIN source |->
        IF n \in DOMAIN source THEN source[n] ELSE target[n]]

\* settingsSetEnv with data.env = pairs in place of Object.assign
settingsSetEnvFresh(fs, filePath, pairs) ==
    [fs EXCEPT ![filePath] =
        Doc(Obj(Assign(ParsedOrFresh(fs, filePath).o, [env |-> Obj(pairs)])))]

\* settingsSetEnv(filePath, pairs): the content of filePath afterwards.  The
\* settings documents of the model are JSON objects.
settingsSetEnv(fs, filePath, pairs) ==
    LET data == ParsedOrFresh(fs, filePath)
        oldEnv == JsonGet(data, "env")
        newEnv == IF ~Truthy(oldEnv) THEN Obj(pairs)
                  ELSE IF oldEnv.t = "obj" THEN Obj(Assign(oldEnv.o, pairs))
                  ELSE oldEnv
    IN  [fs EXCEPT ![filePath] = Doc(Obj(Assign(data.o, [env |-> newEnv])))]

\* settingsSetKey(filePath, key, value)
settingsSetKey(fs, filePath, key, value) ==
    LET data == ParsedOrFresh(fs, filePath)
    IN  [fs EXCEPT ![filePath] =
            Doc(Obj(Assign(data.o, [n \in { key } |-> value])))]

\* fs.mkdirSync(path.dirname(filePath), { recursive: true }): a settings file
\* lives in the .claude directory of dirname(dirname(filePath))
WithClaudeDirOf(claude, filePath) == claude \cup { dirname(dirname(filePath)) }

\* The text of a shell rc file is the sequence of its items: a Portkey block
\* (from its opening comment to its closing one) with the variables it
\* exports, or any other text.
PortkeyBlock(exports) == [portkey |-> TRUE, exports |-> exports]

\* writeShellRc(filePath, block): every Portkey block removed, block appended
writeShellRc(fs, filePath, block) ==
    LET content == IF filePath \in DOMAIN fs /\ fs[filePath].k = "text"
                   THEN fs[filePath].items ELSE <<>>
    IN  [fs EXCEPT ![filePath] =
            Text(SelectSeq(content, LAMBDA item : ~item.portkey) \o <<block>>)]

----------------------------------------------------------------------------
(* setup: doSetup, one action per stretch of the function that ends in the *)
(* answers of the user (or of the Portkey API) it waits for.  A run that   *)
(* returns early, or that has written, is at "done".                       *)

\* what a prompt returns when the user cancels it, and when the user keeps
\* what is offered
Cancelled == <<"(cancel)">>
Kept == <<"(keep)">>

\* the values the command line, the prompts and the Portkey API supply
KeyB == <<"p", "k", "B">>
Keys == { KeyA, KeyB }
AnthropicKey == <<"s", "k", "-", "a", "n", "t">>
AnthropicKeyB == <<"s", "k", "-", "b">>
AnthropicKeys == { AnthropicKey, AnthropicKeyB }
PrivateGateway == <<"h", "t", "t", "p", "s", ":", "/", "/", "g", "w">>
TypedGateways == { PORTKEY_GATEWAY, PrivateGateway, PrivateGateway \o <<"/", "v", "1">>, <<"g", "w">>, <<>> }
SlugAlphabet == { "@", "a", " " }
Slugs == (StringsUpTo(SlugAlphabet, MaxInputLen) \ { <<>> }) \cup { KeyPlaceholder }
IdAlphabet == { "c", " " }
ConfigIds ==
    ((StringsUpTo(IdAlphabet, MaxInputLen) \cup ConfigTokenValues) \ { <<>> })
        \cup { KeyPlaceholder }
ManualChoice == <<"_", "_", "m", "a", "n", "u", "a", "l", "_", "_">>
ModeFlags == { "", "provider", "config", "oauth", "direct" }
\* the providers fetchProviders lists: slug and provider type
ListedProviders ==
    { [slug |-> <<"a">>, type |-> <<>>],
      [slug |-> <<"a">>, type |-> <<"B", "e", "d", "r", "o", "c", "k">>],
      [slug |-> <<"@", "a">>, type |-> <<"o", "p", "e", "n", "a", "i">>] }
ModelLists == { <<>>, << <<"X", "-", "O", "p", "u", "s">> >> }
\* --model, --opus-model, --sonnet-model and --haiku-model
ModelFlags ==
    { [model |-> <<>>, opus |-> <<>>, sonnet |-> <<>>, haiku |-> <<>>],
      [model |-> OpusWord, opus |-> <<>>, sonnet |-> <<>>, haiku |-> <<>>],
      [model |-> <<>>, opus |-> <<"m">>, sonnet |-> <<>>, haiku |-> <<>>] }
\* --yes and --dry-run
RunFlags ==
    { [yes |-> FALSE, dryRun |-> FALSE],
      [yes |-> TRUE, dryRun |-> FALSE],
      [yes |-> TRUE, dryRun |-> TRUE] }
LocationFlags == { "", "env", "global", "project-local", "project-shared" }

\* the command lines, the prompt answers and the fetched lists a run draws from
Inputs ==
    [runFlags |-> RunFlags, keys |-> Keys,
     gatewayFlags |-> { PrivateGateway }, typedGateways |-> TypedGateways,
     modeFlags |-> ModeFlags, slugs |-> Slugs, configIds |-> ConfigIds,
     listedProviders |-> ListedProviders, anthropicKeys |-> AnthropicKeys,
     locationFlags |-> LocationFlags,
     modelFlags |-> ModelFlags, modelLists |-> ModelLists]

\* the validate callbacks of the prompts
RequiredOk(v) == v # <<>>
GatewayOk(v) ==
    /\ v # <<>>
    /\ ~EndsWith(v, <<"/", "v", "1">>)
    /\ StartsWith(v, <<"h", "t", "t", "p">>)

\* the local variables of doSetup before any is assigned
FreshRun ==
    [started |-> TRUE, outcome |-> "running",
     portkeyKey |-> <<>>, gateway |-> <<>>, mode |-> "",
     slugInput |-> <<>>, providerSlug |-> <<>>, providerType |-> <<>>,
     configId |-> <<>>, extraHeaders |-> <<>>, anthropicKey |-> <<>>,
     argLocation |-> "", location |-> "", resolvedProjectRoot |-> NoPath,
     model |-> <<>>, opusModel |-> <<>>, sonnetModel |-> <<>>, haikuModel |-> <<>>,
     setModelMappings |-> FALSE,
     targetFile |-> NoPath, resolvedHeaders |-> <<>>, ready |-> FALSE]

\* return p.outro("Setup cancelled.")
SetupCancel ==
    /\ run' = [run EXCEPT !.outcome = "cancelled"]
    /\ pc' = "done"
    /\ UNCHANGED <<files, env, gitDirs, claudeDirs, args, existing, report, probe, commands>>

\* lines 36-79: readExistingConfig, then the install step
SetupStart(d) ==
    /\ pc = "idle"
    /\ \E flags \in d.runFlags, install \in { "installed", "answered", "cancel" } :
          LET found == readExistingConfig(files, gitDirs, claudeDirs)
          IN  /\ existing' = found
              /\ args' = [given |-> TRUE, yes |-> flags.yes, dryRun |-> flags.dryRun]
              /\ run' = [FreshRun EXCEPT !.outcome =
                            IF found.threw THEN "threw"
                            ELSE IF install = "cancel" THEN "cancelled" ELSE "running"]
              /\ pc' = IF found.threw \/ install = "cancel" THEN "done" ELSE "key"
    /\ UNCHANGED <<files, env, gitDirs, claudeDirs, report, probe, commands>>

\* lines 81-117: the Portkey API key
SetupPortkeyKey(d) ==
    /\ pc = "key"
    /\ \E argKey \in { <<>> } \cup d.keys :
          LET candidate ==
                  OrElse(argKey, OrElse(EnvGet(env, "PORTKEY_API_KEY"),
                      IF existing.found THEN existing.portkeyKey.s ELSE <<>>))
              answers ==
                  IF candidate # <<>> /\ argKey = <<>>
                  THEN (IF args.yes THEN { Kept }
                        ELSE { Kept, Cancelled } \cup { v \in d.keys : RequiredOk(v) })
                  ELSE IF candidate = <<>>
                  THEN { Cancelled } \cup { v \in d.keys \cup { <<>> } : RequiredOk(v) }
                  ELSE { Kept }
          IN  \E answer \in answers :
                  IF answer = Cancelled THEN SetupCancel
                  ELSE /\ run' = [run EXCEPT !.portkeyKey =
                                     IF answer = Kept THEN candidate ELSE answer]
                       /\ pc' = "gateway"
                       /\ UNCHANGED <<files, env, gitDirs, claudeDirs, args, existing, report, probe, commands>>

\* lines 119-151: the gateway URL
SetupGateway(d) ==
    /\ pc = "gateway"
    /\ \E argGateway \in { <<>> } \cup d.gatewayFlags :
          LET candidate ==
                  OrElse(argGateway,
                      OrElse(IF existing.found /\ existing.gateway.s # PORTKEY_GATEWAY
                             THEN existing.gateway.s ELSE <<>>,
                             PORTKEY_GATEWAY))
              answers ==
                  IF argGateway = <<>> /\ ~args.yes /\ candidate = PORTKEY_GATEWAY
                  THEN { Kept, Cancelled } \cup { v \in d.typedGateways : GatewayOk(v) }
                  ELSE { Kept }
          IN  \E answer \in answers :
                  IF answer = Cancelled THEN SetupCancel
                  ELSE /\ run' = [run EXCEPT !.gateway =
                                     IF answer = Kept THEN candidate ELSE answer]
                       /\ pc' = "routing"
                       /\ UNCHANGED <<files, env, gitDirs, claudeDirs, args, existing, report, probe, commands>>

\* the run goes on to step 5 with the routing locals it has assigned
RoutingDone(mode, slugInput, providerSlug, providerType, configId, extraHeaders) ==
    /\ run' = [run EXCEPT !.mode = mode, !.slugInput = slugInput,
                          !.providerSlug = providerSlug, !.providerType = providerType,
                          !.configId = configId, !.extraHeaders = extraHeaders]
    /\ pc' = "location"
    /\ UNCHANGED <<files, env, gitDirs, claudeDirs, args, existing, report, probe, commands>>

\* lines 190-251: mode === "provider"
RouteProvider(d, argProvider) ==
    LET reuse == args.yes /\ existing.found /\ existing.provider # <<>>
        prompted == argProvider = <<>> /\ ~reuse
        \* what the select over the fetched providers, or the text prompt when
        \* none was fetched, returns
        picks ==
            IF prompted
            THEN { [slug |-> l.slug, listed |-> TRUE, type |-> l.type] :
                       l \in { v \in d.listedProviders : Truthy(Str(v.slug)) } }
                 \cup { [slug |-> s, listed |-> FALSE, type |-> <<>>] :
                            s \in { v \in d.slugs \cup { <<>> } : RequiredOk(v) } }
                 \cup { [slug |-> Cancelled, listed |-> FALSE, type |-> <<>>] }
            ELSE { [slug |-> Kept, listed |-> FALSE, type |-> <<>>] }
    IN  \E pick \in picks, isBV \in { Kept, Cancelled, <<"y">>, <<"n">> } :
            LET slugInput == IF argProvider # <<>> THEN argProvider
                             ELSE IF reuse THEN existing.provider ELSE pick.slug
                fetchedType == IF pick.listed THEN ToLower(pick.type) ELSE <<>>
                providerSlug == SliceFrom(normalizeProvider(slugInput), 1)
                extraHeaders == XPortkeyProvider \o <<"@">> \o providerSlug
                askType == fetchedType = <<>> /\ ~args.yes
            IN  /\ askType <=> isBV # Kept
                /\ IF pick.slug = Cancelled \/ isBV = Cancelled THEN SetupCancel
                   ELSE RoutingDone("provider", slugInput, providerSlug,
                                    IF isBV = <<"y">> THEN Bedrock ELSE fetchedType,
                                    <<>>, extraHeaders)

\* lines 252-304: mode === "config"
RouteConfig(d, argConfig) ==
    LET given == OrElse(argConfig,
                     IF args.yes /\ existing.found /\ existing.configId # <<>>
                     THEN existing.configId ELSE <<>>)
        \* the select over the fetched configs returns one of their ids or
        \* __manual__; the text prompt follows when it returned __manual__ or
        \* no config was fetched
        selected == IF given = <<>>
                    THEN { <<>>, ManualChoice, Cancelled } \cup { v \in d.configIds : Truthy(Str(v)) }
                    ELSE { Kept }
        typed == { Kept, Cancelled } \cup { v \in d.configIds \cup { <<>> } : RequiredOk(v) }
    IN  \E choice \in selected, text \in typed :
            LET asksText == choice \in { <<>>, ManualChoice }
                configId == IF given # <<>> THEN given
                            ELSE IF asksText THEN text ELSE choice
            IN  /\ asksText <=> text # Kept
                /\ IF choice = Cancelled \/ text = Cancelled THEN SetupCancel
                   ELSE RoutingDone("config", <<>>, <<>>, <<>>, configId,
                                    XPortkeyConfig \o configId)

\* lines 307-327: mode === "oauth"
RouteOauth(d) ==
    \E argAnthropicKey \in { <<>> } \cup d.anthropicKeys :
        LET given == OrElse(argAnthropicKey, EnvGet(env, "ANTHROPIC_API_KEY"))
            answers == IF given = <<>> /\ ~args.yes
                       THEN { Cancelled } \cup { v \in d.anthropicKeys \cup { <<>> } : RequiredOk(v) }
                       ELSE { Kept }
        IN  \E answer \in answers :
                LET anthropicKey == IF answer = Kept THEN given ELSE answer
                IN  IF answer = Cancelled THEN SetupCancel
                    ELSE IF anthropicKey = <<>>
                    THEN /\ run' = [run EXCEPT !.mode = "oauth", !.outcome = "refused"]
                         /\ pc' = "done"
                         /\ UNCHANGED <<files, env, gitDirs, claudeDirs, args, existing, report, probe, commands>>
                    ELSE /\ run' = [run EXCEPT
                                      !.mode = "oauth", !.anthropicKey = anthropicKey,
                                      !.extraHeaders =
                                          XPortkeyApiKey \o run.portkeyKey \o <<"\n">>
                                              \o XPortkeyConfig \o ConfigB64]
                         /\ pc' = "location"
                         /\ UNCHANGED <<files, env, gitDirs, claudeDirs, args, existing, report, probe, commands>>

\* lines 153-327: the routing mode, then the provider, the config or the
\* Anthropic key
SetupRouting(d) ==
    /\ pc = "routing"
    /\ \E argMode \in d.modeFlags, argProvider \in { <<>> } \cup d.slugs,
          argConfig \in { <<>> } \cup d.configIds,
          selectedMode \in { "provider", "config", "oauth", "(cancel)", "(none)" } :
          LET flagged ==
                  IF argMode # "" THEN argMode
                  ELSE IF argConfig # <<>> THEN "config"
                  ELSE IF argProvider # <<>> THEN "provider"
                  ELSE IF args.yes
                  THEN (IF existing.found /\ existing.mode # "" THEN existing.mode
                        ELSE "provider")
                  ELSE ""
              mode == IF flagged # "" THEN flagged ELSE selectedMode
          IN  /\ flagged = "" <=> selectedMode # "(none)"
              /\ CASE mode = "(cancel)" -> SetupCancel
                   [] mode = "provider" -> RouteProvider(d, argProvider)
                   [] mode = "config" -> RouteConfig(d, argConfig)
                   [] mode = "oauth" -> RouteOauth(d)
                   [] OTHER -> RoutingDone(mode, <<>>, <<>>, <<>>, <<>>, <<>>)

\* location.startsWith("project") over the locations of the model
StartsWithProject(location) == location \in { "project-local", "project-shared" }

\* lines 329-389: where to save
SetupLocation(d) ==
    /\ pc = "location"
    /\ \E argLocation \in d.locationFlags,
          selected \in { "env", "project-local", "project-shared", "global", "(cancel)", "(none)" },
          useCwd \in { "yes", "no", "(cancel)", "(none)" } :
          LET projectRoot == findProjectRoot(gitDirs, claudeDirs)
              given == IF argLocation # "" THEN argLocation
                       ELSE IF args.yes
                       THEN (IF existing.found THEN existing.location ELSE "env")
                       ELSE ""
              location == IF given # "" THEN given ELSE selected
              rootless == StartsWithProject(location) /\ projectRoot = NoPath
          IN  /\ given = "" <=> selected # "(none)"
              /\ StartsWithProject(selected) => projectRoot # NoPath
              /\ rootless <=> useCwd # "(none)"
              /\ IF location = "(cancel)" \/ useCwd = "(cancel)" THEN SetupCancel
                 ELSE /\ run' = [run EXCEPT
                                   !.argLocation = argLocation,
                                   !.location = IF useCwd = "no" THEN "global" ELSE location,
                                   !.resolvedProjectRoot =
                                       IF useCwd = "yes" THEN Cwd ELSE projectRoot]
                      /\ pc' = "finish"
                      /\ UNCHANGED <<files, env, gitDirs, claudeDirs, args, existing, report, probe, commands>>

\* envVars with the Anthropic key of the run exported next to the others
ShellExportsWithUpstreamKey(r) ==
    << [name |-> "PORTKEY_API_KEY", value |-> r.portkeyKey],
       [name |-> "ANTHROPIC_BASE_URL", value |-> r.gateway],
       [name |-> "ANTHROPIC_AUTH_TOKEN", value |-> r.portkeyKey],
       [name |-> "ANTHROPIC_CUSTOM_HEADERS", value |-> r.resolvedHeaders] >>
      \o (IF r.anthropicKey # <<>>
          THEN << [name |-> "ANTHROPIC_API_KEY", value |-> r.anthropicKey] >>
          ELSE <<>>)

\* lines 636-647: envVars, in the order of its keys
ShellExports(r) ==
    << [name |-> "PORTKEY_API_KEY", value |-> r.portkeyKey],
       [name |-> "ANTHROPIC_BASE_URL", value |-> r.gateway],
       [name |-> "ANTHROPIC_AUTH_TOKEN", value |-> r.portkeyKey],
       [name |-> "ANTHROPIC_CUSTOM_HEADERS", value |-> r.resolvedHeaders] >>
      \o (IF r.model # <<>> THEN << [name |-> "ANTHROPIC_MODEL", value |-> r.model] >>
          ELSE <<>>)
      \o (IF r.setModelMappings
          THEN << [name |-> "ANTHROPIC_DEFAULT_OPUS_MODEL", value |-> r.opusModel],
                  [name |-> "ANTHROPIC_DEFAULT_SONNET_MODEL", value |-> r.sonnetModel],
                  [name |-> "ANTHROPIC_DEFAULT_HAIKU_MODEL", value |-> r.haikuModel] >>
          ELSE <<>>)

\* lines 684-693: envPairs
SettingsPairs(r) ==
    LET names == { "ANTHROPIC_BASE_URL", "ANTHROPIC_AUTH_TOKEN", "ANTHROPIC_CUSTOM_HEADERS" }
                     \cup (IF r.setModelMappings
                           THEN { "ANTHROPIC_DEFAULT_OPUS_MODEL",
                                  "ANTHROPIC_DEFAULT_SONNET_MODEL",
                                  "ANTHROPIC_DEFAULT_HAIKU_MODEL" }
                           ELSE {})
    IN  [n \in names |->
            Str(CASE n = "ANTHROPIC_BASE_URL" -> r.gateway
                  [] n = "ANTHROPIC_AUTH_TOKEN" -> r.portkeyKey
                  [] n = "ANTHROPIC_CUSTOM_HEADERS" -> r.resolvedHeaders
                  [] n = "ANTHROPIC_DEFAULT_OPUS_MODEL" -> r.opusModel
                  [] n = "ANTHROPIC_DEFAULT_SONNET_MODEL" -> r.sonnetModel
                  [] OTHER -> r.haikuModel)]

\* lines 633-736: the files after the write of a run whose locals are r
FilesWritten(fs, r) ==
    IF r.location = "env"
    THEN writeShellRc(fs, r.targetFile, PortkeyBlock(ShellExports(r)))
    ELSE LET withEnv == settingsSetEnv(fs, r.targetFile, SettingsPairs(r))
             withModel == IF r.model # <<>>
                          THEN settingsSetKey(withEnv, r.targetFile, "model", Str(r.model))
                          ELSE withEnv
         IN  writeShellRc(withModel, detectShellRc,
                 PortkeyBlock(<< [name |-> "ANTHROPIC_AUTH_TOKEN", value |-> r.portkeyKey] >>))

\* lines 392-409: model, the three mappings and setModelMappings after step 6
Step6(r, flags) ==
    LET isBedrock == r.providerType \in BEDROCK_VERTEX_TYPES
        flagged == flags.opus # <<>> \/ flags.sonnet # <<>> \/ flags.haiku # <<>>
        fill == isBedrock /\ flagged
    IN  [r EXCEPT
            !.model = OrElse(flags.model,
                          IF existing.found /\ Truthy(existing.model)
                          THEN existing.model.s ELSE <<>>),
            !.opusModel = IF fill THEN OrElse(flags.opus, DefaultOpusModel) ELSE flags.opus,
            !.sonnetModel = IF fill THEN OrElse(flags.sonnet, DefaultSonnetModel)
                            ELSE flags.sonnet,
            !.haikuModel = IF fill THEN OrElse(flags.haiku, DefaultHaikuModel)
                           ELSE flags.haiku,
            !.setModelMappings = flagged,
            !.targetFile = getSettingsPath(r.location, r.resolvedProjectRoot),
            !.resolvedHeaders = ReplaceAll(r.extraHeaders, KeyPlaceholder, r.portkeyKey)]

\* --yes going on to the write without selecting any mapping
AutoMappingsSkipped(r, availableModels) == r

\* lines 443-459: the mappings --yes selects for a Bedrock or Vertex provider
AutoMappings(r, availableModels) ==
    IF r.providerType \in BEDROCK_VERTEX_TYPES /\ ~r.setModelMappings
    THEN [r EXCEPT
            !.setModelMappings = TRUE,
            !.opusModel = OrElse(OrElse(findModel(availableModels, OpusWord), r.opusModel),
                                 DefaultOpusModel),
            !.sonnetModel = OrElse(OrElse(findModel(availableModels, SonnetWord), r.sonnetModel),
                                   DefaultSonnetModel),
            !.haikuModel = OrElse(OrElse(findModel(availableModels, HaikuWord), r.haikuModel),
                                  DefaultHaikuModel)]
    ELSE r

\* what the prompts of one visit of the advanced settings can return: the
\* selects return a listed value, a text prompt left empty returns its
\* default (Kept)
AdvancedAnswers(availableModels) ==
    IF availableModels # <<>>
    THEN LET listed == { availableModels[i] : i \in 1..Len(availableModels) }
         IN  [model : { <<>>, OpusWord } \cup listed,
              opus : listed, sonnet : listed, haiku : listed]
    ELSE { [model |-> Kept, opus |-> Kept, sonnet |-> Kept, haiku |-> Kept],
           [model |-> SonnetWord, opus |-> <<"m">>, sonnet |-> Kept, haiku |-> Kept] }

\* lines 506-629: one visit of the advanced settings
AdvancedVisit(r, availableModels, modelAnswer, mappings) ==
    LET defaultOpus == OrElse(r.opusModel,
                           OrElse(findModel(availableModels, OpusWord), DefaultOpusModel))
        defaultSonnet == OrElse(r.sonnetModel,
                             OrElse(findModel(availableModels, SonnetWord), DefaultSonnetModel))
        defaultHaiku == OrElse(r.haikuModel,
                            OrElse(findModel(availableModels, HaikuWord), DefaultHaikuModel))
    IN  [r EXCEPT
            !.model = IF modelAnswer = Kept THEN r.model ELSE modelAnswer,
            !.setModelMappings = TRUE,
            !.opusModel = OrElse(IF mappings.opus = Kept THEN defaultOpus ELSE mappings.opus,
                                 DefaultOpusModel),
            !.sonnetModel = OrElse(IF mappings.sonnet = Kept THEN defaultSonnet
                                   ELSE mappings.sonnet, DefaultSonnetModel),
            !.haikuModel = OrElse(IF mappings.haiku = Kept THEN defaultHaiku
                                  ELSE mappings.haiku, DefaultHaikuModel)]

\* the end of the run with the write done whether or not the run is ready
\* and whether or not it is a dry run
EndRunAlwaysWrites(r, ready) ==
    LET wrote == ready /\ ~args.dryRun
    IN  /\ run' = [r EXCEPT !.ready = ready,
                            !.outcome = IF wrote THEN "written" ELSE "dry-run"]
        /\ pc' = "done"
        /\ files' = FilesWritten(files, r)
        /\ claudeDirs' = IF r.location # "env"
                         THEN WithClaudeDirOf(claudeDirs, r.targetFile)
                         ELSE claudeDirs
        /\ UNCHANGED <<env, gitDirs, args, existing, report, probe, commands>>

\* lines 633-741: the write, when the run is ready and no dry run, and the end
EndRun(r, ready) ==
    LET wrote == ready /\ ~args.dryRun
    IN  /\ run' = [r EXCEPT !.ready = ready,
                            !.outcome = IF wrote THEN "written" ELSE "dry-run"]
        /\ pc' = "done"
        /\ files' = IF wrote THEN FilesWritten(files, r) ELSE files
        /\ claudeDirs' = IF wrote /\ r.location # "env"
                         THEN WithClaudeDirOf(claudeDirs, r.targetFile)
                         ELSE claudeDirs
        /\ UNCHANGED <<env, gitDirs, args, existing, report, probe, commands>>

\* lines 391-741: the advanced settings, the summary, the choice to write,
\* and the write.  The loop of lines 470-630 ends in a cancel, in a write
\* with the locals of step 6, or in a write after visits of the advanced
\* settings; the locals after several visits are among those after one.
SetupFinish(d) ==
    /\ pc = "finish"
    /\ \E flags \in d.modelFlags, fetchedModels \in d.modelLists :
          LET step6 == Step6(run, flags)
              \* what modelsPromise resolves to; undefined unless mode is provider
              availableModels == IF run.mode = "provider" THEN fetchedModels ELSE <<>>
              canWrite == \/ step6.providerType \notin BEDROCK_VERTEX_TYPES
                          \/ step6.setModelMappings
                          \/ step6.model # <<>>
          IN  IF args.dryRun THEN EndRun(step6, FALSE)
              ELSE IF args.yes THEN EndRun(AutoMappings(step6, availableModels), TRUE)
              ELSE \E action \in { "cancel", "advanced" }
                                     \cup (IF canWrite THEN { "write" } ELSE {}) :
                       CASE action = "cancel" -> SetupCancel
                         [] action = "write" -> EndRun(step6, TRUE)
                         [] action = "advanced" ->
                              \E answers \in AdvancedAnswers(availableModels) :
                                  EndRun(AdvancedVisit(step6, availableModels,
                                                       answers.model, answers), TRUE)

----------------------------------------------------------------------------
(* No command in progress *)

NoArgs == [given |-> FALSE]
NoRun == [started |-> FALSE]
NoExisting == [called |-> FALSE]

----------------------------------------------------------------------------
(* uninstall *)

ENV_KEYS_TO_REMOVE ==
    { "ANTHROPIC_BASE_URL", "ANTHROPIC_CUSTOM_HEADERS", "ANTHROPIC_AUTH_TOKEN",
      "PORTKEY_API_KEY", "ANTHROPIC_DEFAULT_OPUS_MODEL",
      "ANTHROPIC_DEFAULT_SONNET_MODEL", "ANTHROPIC_DEFAULT_HAIKU_MODEL" }

\* settingsRemoveKeys(filePath, envKeys): the content of filePath afterwards.
\* Object.keys of a string that is not empty is not empty, Object.keys of a
\* number is.  The settings documents of the model are JSON objects.
settingsRemoveKeys(fs, filePath, envKeys) ==
    IF ~(filePath \in DOMAIN fs /\ fs[filePath].k = "json" /\ fs[filePath].v.t = "obj")
    THEN fs
    ELSE LET data == fs[filePath].v
             oldEnv == JsonGet(data, "env")
             envObj == IF Truthy(oldEnv) THEN oldEnv ELSE EmptyObject
             kept == IF envObj.t = "obj"
                     THEN Obj([n \in DOMAIN envObj.o \ envKeys |-> envObj.o[n]])
                     ELSE envObj
             noKeys == CASE kept.t = "obj" -> DOMAIN kept.o = {}
                         [] kept.t = "str" -> FALSE
                         [] OTHER -> TRUE
         IN  [fs EXCEPT ![filePath] =
                 Doc(Obj(IF noKeys THEN [n \in DOMAIN data.o \ { "env" } |-> data.o[n]]
                         ELSE Assign(data.o, [env |-> kept])))]

\* content.includes("# -- Portkey + Claude Code") for the shell rc file
HasPortkeyBlock(fs, filePath) ==
    /\ filePath \in DOMAIN fs
    /\ fs[filePath].k = "text"
    /\ \E i \in 1..Len(fs[filePath].items) : fs[filePath].items[i].portkey

\* removeShellRcBlock(filePath): the content of filePath afterwards
removeShellRcBlock(fs, filePath) ==
    IF HasPortkeyBlock(fs, filePath)
    THEN [fs EXCEPT ![filePath] =
             Text(SelectSeq(fs[filePath].items, LAMBDA item : ~item.portkey))]
    ELSE fs

\* process.env.HOME || process.env.USERPROFILE || "": the directory
\* os.homedir() returns, which reads the same variable
UninstallHome == Home

\* doUninstall only cleans the global settings file
UninstallGlobalOnly(root) ==
    << UninstallHome \o <<".claude", "settings.json">> >>

\* lines 48-56: settingsFiles
UninstallSettingsFiles(root) ==
    << UninstallHome \o <<".claude", "settings.json">> >>
      \o (IF root # NoPath
          THEN << root \o <<".claude", "settings.json">>,
                  root \o <<".claude", "settings.local.json">> >>
          ELSE <<>>)

\* lines 58-75: the loop over settingsFiles from its i-th file on; answers[i]
\* is what the confirm prompt for the i-th file returns
RECURSIVE UninstallLoop(_, _, _, _, _)
UninstallLoop(fs, settingsFiles, i, yes, answers) ==
    IF i > Len(settingsFiles) THEN fs
    ELSE LET f == settingsFiles[i]
             hasPortkey ==
                 \/ Truthy(jsonRead(fs, f, <<"env", "ANTHROPIC_BASE_URL">>))
                 \/ Truthy(jsonRead(fs, f, <<"env", "ANTHROPIC_CUSTOM_HEADERS">>))
         IN  IF ~existsSync(fs, f) \/ ~hasPortkey
             THEN UninstallLoop(fs, settingsFiles, i + 1, yes, answers)
             ELSE IF ~yes /\ answers[i] = "cancel" THEN fs
             ELSE UninstallLoop(
                      IF yes \/ answers[i] = "yes"
                      THEN settingsRemoveKeys(fs, f, ENV_KEYS_TO_REMOVE) ELSE fs,
                      settingsFiles, i + 1, yes, answers)

\* lines 77-85: the variables deleted from process.env
UninstallEnv(e) ==
    [n \in DOMAIN e \ { "PORTKEY_API_KEY", "ANTHROPIC_BASE_URL",
                         "ANTHROPIC_CUSTOM_HEADERS", "ANTHROPIC_AUTH_TOKEN" } |-> e[n]]

\* doUninstall(args)
DoUninstall ==
    /\ pc = "idle"
    /\ \E yes \in BOOLEAN, shellAnswer \in { "yes", "no", "cancel", "(none)" },
          answers \in [1..3 -> { "yes", "no", "cancel" }] :
          LET hasBlock == HasPortkeyBlock(files, detectShellRc)
              remove == hasBlock /\ (yes \/ shellAnswer = "yes")
              afterShell == IF remove THEN removeShellRcBlock(files, detectShellRc)
                            ELSE files
              projectRoot == findProjectRoot(gitDirs, claudeDirs)
          IN  /\ (hasBlock /\ ~yes) <=> shellAnswer # "(none)"
              /\ yes => \A i \in 1..3 : answers[i] = "yes"
              /\ files' = UninstallLoop(afterShell, UninstallSettingsFiles(projectRoot),
                                        1, yes, answers)
              /\ args' = [given |-> TRUE, yes |-> yes, dryRun |-> FALSE]
    /\ env' = UninstallEnv(env)
    /\ pc' = "uninstalled"
    /\ run' = NoRun
    /\ existing' = NoExisting
    /\ UNCHANGED <<gitDirs, claudeDirs, report, probe, commands>>

\* the command has returned: its locals are gone
CommandReturns ==
    /\ pc \in { "done", "uninstalled" }
    /\ pc' = "idle"
    /\ args' = NoArgs
    /\ run' = NoRun
    /\ existing' = NoExisting
    /\ commands' = commands + 1
    /\ UNCHANGED <<files, env, gitDirs, claudeDirs, report, probe>>

----------------------------------------------------------------------------
(* States shared by the specifications *)

NoProbe == [op |-> "none"]


EmptyEnv == [n \in {} |-> <<>>]

\* the directories whose .claude directory holds a file
ClaudeDirsOf(fs) ==
    { d \in RootDirs : \E n \in {"settings.json", "settings.local.json"} :
                           existsSync(fs, d \o <<".claude", n>>) }

----------------------------------------------------------------------------
(* SpecDiscover: doDiscover over drawn layer contents.  One subject        *)
(* variable takes a drawn value (or none) in each layer; a second variable *)
(* is set in no layer, in the global file, or in the global file and the   *)
(* shell.                                                                  *)

ValX == PORTKEY_GATEWAY
ValY == <<"y">>

SubjectVars == { "ANTHROPIC_BASE_URL", "ANTHROPIC_CUSTOM_HEADERS" }
SecondVar == "PORTKEY_API_KEY"

\* what a settings file may say of the subject variable
FileChoices == { "missing", "nokey", "empty", "x", "y" }
GlobalChoices == FileChoices \cup { "garbage", "null", "zero" }

ChoiceValue(choice) ==
    CASE choice = "empty" -> Str(<<>>)
      [] choice = "x" -> Str(ValX)
      [] choice = "y" -> Str(ValY)
      [] choice = "zero" -> Num(0)
      [] choice = "null" -> Null

\* the settings file drawn for one layer
DrawnFile(choice, subject, withSecond) ==
    LET second == IF withSecond THEN { SecondVar } ELSE {}
        first == IF choice = "nokey" THEN {} ELSE { subject }
    IN  CASE choice = "missing" -> Missing
          [] choice = "garbage" -> Garbage
          [] OTHER ->
              Doc(Obj([env |-> Obj([v \in first \cup second |->
                          IF v = subject THEN ChoiceValue(choice) ELSE Str(ValY)])]))

DrawnFiles(subject, ent, glob, shared, local, withSecond) ==
    [p \in AllPaths |->
        CASE p = EnterpriseCandidates[2] -> DrawnFile(ent, subject, FALSE)
          [] p = Home \o <<".claude", "settings.json">> ->
                DrawnFile(glob, subject, withSecond # "nowhere")
          [] p = Cwd \o <<".claude", "settings.json">> -> DrawnFile(shared, subject, FALSE)
          [] p = Cwd \o <<".claude", "settings.local.json">> -> DrawnFile(local, subject, FALSE)
          [] p = detectShellRc -> Text(<<>>)
          [] OTHER -> Missing]

\* the subject variable is not in the environment of the process
Unset == <<"(unset)">>

InitDiscover ==
    /\ \E subject \in SubjectVars, withSecond \in { "nowhere", "global", "global+shell" },
          ent \in FileChoices, glob \in GlobalChoices,
          shared \in FileChoices, local \in FileChoices,
          shell \in { Unset, <<>>, ValX, ValY } :
          /\ files = DrawnFiles(subject, ent, glob, shared, local, withSecond)
          /\ env = [n \in (IF shell = Unset THEN {} ELSE { subject }) \cup
                             (IF withSecond = "global+shell" THEN { SecondVar } ELSE {}) |->
                        IF n = subject THEN shell ELSE ValX]
    /\ gitDirs = { Cwd }
    /\ claudeDirs = ClaudeDirsOf(files)
    /\ pc = "idle"
    /\ args = NoArgs
    /\ run = NoRun
    /\ existing = NoExisting
    /\ report = NoReport
    /\ probe = NoProbe
    /\ commands = 0

NextDiscover == DoDiscover

SpecDiscover == InitDiscover /\ [][NextDiscover]_vars

----------------------------------------------------------------------------
(* Spec: one run of setup, from a machine without a configuration or with  *)
(* one an earlier run has written.                                         *)

\* the settings an earlier run has left, by the routing it was given
EarlierEnv(routing) ==
    CASE routing = "provider" ->
            [ANTHROPIC_BASE_URL |-> Str(PORTKEY_GATEWAY),
             ANTHROPIC_AUTH_TOKEN |-> Str(KeyA),
             ANTHROPIC_CUSTOM_HEADERS |-> Str(XPortkeyProvider \o <<"@", "a">>)]
      [] routing = "config" ->
            [ANTHROPIC_BASE_URL |-> Str(PrivateGateway),
             ANTHROPIC_AUTH_TOKEN |-> Str(KeyA),
             ANTHROPIC_CUSTOM_HEADERS |-> Str(XPortkeyConfig \o PcPrefix \o <<"1">>)]
      [] routing = "oauth" ->
            [ANTHROPIC_BASE_URL |-> Str(PORTKEY_GATEWAY),
             ANTHROPIC_AUTH_TOKEN |-> Str(KeyA),
             ANTHROPIC_CUSTOM_HEADERS |->
                 Str(XPortkeyApiKey \o KeyA \o <<"\n">> \o XPortkeyConfig \o ConfigB64)]
      [] routing = "direct" ->
            [ANTHROPIC_BASE_URL |-> Str(PORTKEY_GATEWAY),
             ANTHROPIC_AUTH_TOKEN |-> Str(KeyA),
             ANTHROPIC_CUSTOM_HEADERS |-> Str(<<>>)]

\* a line of the shell rc file that is the user's own
UserLine == [portkey |-> FALSE]

EarlierFiles(routing, layer) ==
    [p \in AllPaths |->
        IF p = detectShellRc
        THEN (IF routing = "none" THEN Text(<<UserLine>>)
              ELSE Text(<<UserLine,
                          PortkeyBlock(<< [name |-> "ANTHROPIC_AUTH_TOKEN", value |-> KeyA] >>)>>))
        ELSE IF routing # "none" /\ p = getSettingsPath(layer, Cwd)
        THEN Doc(Obj(IF routing = "config"
                     THEN [env |-> Obj(EarlierEnv(routing)), model |-> Str(SonnetWord)]
                     ELSE [env |-> Obj(EarlierEnv(routing))]))
        ELSE Missing]

KeysInEnv ==
    [n \in { "PORTKEY_API_KEY", "ANTHROPIC_API_KEY" } |->
        IF n = "PORTKEY_API_KEY" THEN KeyA ELSE AnthropicKey]

\* the machines a run starts on
Machines ==
    { [routing |-> "none", layer |-> "global", env |-> EmptyEnv, git |-> {}],
      [routing |-> "none", layer |-> "global", env |-> KeysInEnv, git |-> { Cwd }],
      [routing |-> "provider", layer |-> "global", env |-> EmptyEnv, git |-> { Cwd }],
      [routing |-> "config", layer |-> "project-local", env |-> EmptyEnv, git |-> {}],
      [routing |-> "oauth", layer |-> "global", env |-> KeysInEnv, git |-> { Cwd }],
      [routing |-> "direct", layer |-> "global", env |-> EmptyEnv, git |-> {}] }

Init ==
    /\ \E m \in Machines :
          /\ files = EarlierFiles(m.routing, m.layer)
          /\ env = m.env
          /\ gitDirs = m.git
    /\ claudeDirs = ClaudeDirsOf(files)
    /\ pc = "idle"
    /\ args = NoArgs
    /\ run = NoRun
    /\ existing = NoExisting
    /\ report = NoReport
    /\ probe = NoProbe
    /\ commands = 0

Next ==
    \/ SetupStart(Inputs)
    \/ SetupPortkeyKey(Inputs)
    \/ SetupGateway(Inputs)
    \/ SetupRouting(Inputs)
    \/ SetupLocation(Inputs)
    \/ SetupFinish(Inputs)

Spec == Init /\ [][Next]_vars

----------------------------------------------------------------------------
(* Claims about discover *)

\* The layers in which the files and the environment define varName, read off
\* the state: a file-backed layer when its file parses and env.<varName> is
\* there and not null, the shell when the variable is set and not empty.
LayerPresent(layer, varName) ==
    IF layer = "shell"
    THEN varName \in DOMAIN env /\ env[varName] # <<>>
    ELSE LET f == getConfigPath(files, layer, findProjectRoot(gitDirs, claudeDirs))
         IN  /\ f # NoPath
             /\ files[f].k = "json"
             /\ files[f].v.t = "obj"
             /\ "env" \in DOMAIN files[f].v.o
             /\ files[f].v.o["env"].t = "obj"
             /\ varName \in DOMAIN files[f].v.o["env"].o
             /\ files[f].v.o["env"].o[varName] # Null

PresentLayers(varName) ==
    { i \in 1..Len(Precedence) : LayerPresent(Precedence[i], varName) }

\* the value the layer holds for varName, as a string
LayerValue(layer, varName) ==
    IF layer = "shell" THEN env[varName]
    ELSE JsString(files[getConfigPath(files, layer, findProjectRoot(gitDirs, claudeDirs))]
                      .v.o["env"].o[varName])

TopPresent(varName) ==
    Precedence[CHOOSE i \in PresentLayers(varName) :
                   \A j \in PresentLayers(varName) : i <= j]

\* no settings file defines varName: in each layer the file is missing or
\* does not parse, or it has no env.<varName>, or null there
InNoFile(varName) ==
    \A i \in 1..Len(LAYERS) : ~LayerPresent(LAYERS[i], varName)

\* C13 as stated: discover reports a variable as not set, without a winner
\* and without a conflict, when no settings file defines it and it is unset
\* in the environment of the process, and only then.
C13_NotSetIffNowhereAndUnset ==
    report.ran =>
        \A v \in VarNames :
            /\ ~report.resolution[v].set <=> (InNoFile(v) /\ v \notin DOMAIN env)
            /\ ~report.resolution[v].set =>
                   /\ report.resolution[v].wsrc = ""
                   /\ ~report.resolution[v].conflicting

\* C13: discover reports a variable as not set, without a winner and
\* without a conflict, when no settings file defines it and it is unset or
\* empty in the environment of the process, and only then.
C13_NotSetIffNowhereAndUnsetOrEmpty ==
    report.ran =>
        \A v \in VarNames :
            /\ ~report.resolution[v].set <=>
                   (InNoFile(v) /\ (v \notin DOMAIN env \/ env[v] = <<>>))
            /\ ~report.resolution[v].set =>
                   /\ report.resolution[v].wsrc = ""
                   /\ report.resolution[v].sources = <<>>
                   /\ ~report.resolution[v].conflicting

\* C13 witness: discover has reported a variable that is in no settings file
\* and not in the environment as not set, and next to it one that a settings
\* file defines as the empty string as set
C13_Witness ==
    /\ report.ran
    /\ \E v \in VarNames :
          /\ InNoFile(v)
          /\ v \notin DOMAIN env
          /\ ~report.resolution[v].set
    /\ \E v \in VarNames :
          /\ ~InNoFile(v)
          /\ v \notin DOMAIN env
          /\ LayerValue(TopPresent(v), v) = <<>>
          /\ report.resolution[v].set

\* C1: for every catalogue variable present in some layer, the winner discover
\* reports is the highest-precedence layer (shell > enterprise > project-local
\* > project-shared > global) among the layers it is present in, an empty
\* string in a settings file included, and the winning value is that layer's.
C1_WinnerIsTopPresentLayer ==
    report.ran =>
        \A v \in VarNames :
            PresentLayers(v) # {} =>
                /\ report.resolution[v].wsrc = TopPresent(v)
                /\ report.resolution[v].winner = LayerValue(TopPresent(v), v)

----------------------------------------------------------------------------
(* SpecDecode: readExistingConfig over drawn header lines.  The settings   *)
(* file of one layer holds a gateway, a token and an                       *)
(* ANTHROPIC_CUSTOM_HEADERS value: a line made of up to two tokens, or a   *)
(* JSON value that is no string.                                           *)

HeaderTokens ==
    { [kind |-> "provider", text |-> XPortkeyProvider \o v] : v \in ProviderTokenValues }
        \cup { [kind |-> "config", text |-> XPortkeyConfig \o v] : v \in ConfigTokenValues }
        \cup { [kind |-> "other", text |-> XPortkeyApiKey \o KeyA],
               [kind |-> "other", text |-> <<"x", ":", "y">>] }

TokenSeparators == { <<"\n">>, <<" ">> }

\* a header line as it is put together: its tokens and what separates them
HeaderDrafts ==
    { [tokens |-> <<>>, sep |-> <<"\n">>] }
        \cup { [tokens |-> <<t>>, sep |-> <<"\n">>] : t \in HeaderTokens }
        \cup { [tokens |-> <<t, u>>, sep |-> x] :
                   t \in HeaderTokens, u \in HeaderTokens, x \in TokenSeparators }

LineOf(draft) ==
    Join([i \in 1..Len(draft.tokens) |-> draft.tokens[i].text], draft.sep)

\* JSON values of ANTHROPIC_CUSTOM_HEADERS that are no string
OddHeaderValues == { Num(7), Num(0), Null, Obj([n \in {} |-> Null]) }

DecodeLayers == { "global", "project-local" }

InitDecode ==
    /\ \E layer \in DecodeLayers,
          value \in { Str(LineOf(d)) : d \in HeaderDrafts } \cup OddHeaderValues :
          files = [p \in AllPaths |->
                      IF p = getSettingsPath(layer, Cwd)
                      THEN Doc(Obj([env |-> Obj(
                               [ANTHROPIC_BASE_URL |-> Str(PORTKEY_GATEWAY),
                                ANTHROPIC_AUTH_TOKEN |-> Str(KeyA),
                                ANTHROPIC_CUSTOM_HEADERS |-> value])]))
                      ELSE IF p = detectShellRc THEN Text(<<>>)
                      ELSE Missing]
    /\ env = EmptyEnv
    /\ gitDirs = { Cwd }
    /\ claudeDirs = ClaudeDirsOf(files)
    /\ pc = "idle"
    /\ args = NoArgs
    /\ run = NoRun
    /\ existing = NoExisting
    /\ report = NoReport
    /\ probe = NoProbe
    /\ commands = 0

NextDecode == ReadExisting

SpecDecode == InitDecode /\ [][NextDecode]_vars

----------------------------------------------------------------------------
(* Claims about readExistingConfig alone *)

\* the value of the tokens of a kind in a draft: that of the first one with a
\* value, the empty string when none has one
DraftValue(draft, key, kind) ==
    LET valued == SelectSeq(draft.tokens,
                      LAMBDA t : t.kind = kind /\ Len(t.text) > Len(key))
    IN  IF valued = <<>> THEN <<>> ELSE SliceFrom(valued[1].text, Len(key))

DraftHas(draft, kind) == \E i \in 1..Len(draft.tokens) : draft.tokens[i].kind = kind

\* the drafts of the header line the last readExistingConfig call parsed
DraftsRead == { d \in HeaderDrafts : LineOf(d) = existing.headers }

\* C8: a header line without a provider token and with a config token is read
\* as mode config, with the token value as id, when the value starts with
\* "pc-" or is shorter than 30 characters, and as mode oauth otherwise; a line
\* with a provider token is read as mode provider whatever else it holds.
C8_ConfigOrOauthByValue ==
    (existing.called /\ ~existing.threw /\ existing.found) =>
        \A d \in DraftsRead :
            /\ DraftHas(d, "provider") =>
                   /\ existing.mode = "provider"
                   /\ existing.provider = StripLeadingAts(DraftValue(d, XPortkeyProvider, "provider"))
            /\ (~DraftHas(d, "provider") /\ DraftHas(d, "config")) =>
                   LET v == DraftValue(d, XPortkeyConfig, "config")
                   IN  IF StartsWith(v, PcPrefix) \/ Len(v) < ConfigIdMaxLen
                       THEN existing.mode = "config" /\ existing.configId = v
                       ELSE existing.mode = "oauth" /\ existing.configId = <<>>

\* C8 witness: a line holding a 30-character config value and then a provider
\* token has been read as mode provider
C8_Witness ==
    /\ existing.called /\ ~existing.threw /\ existing.found
    /\ existing.mode = "provider"
    /\ \E d \in DraftsRead :
           /\ Len(d.tokens) = 2
           /\ d.tokens[1].kind = "config"
           /\ Len(d.tokens[1].text) = Len(XPortkeyConfig) + ConfigIdMaxLen
           /\ d.tokens[2].kind = "provider"

\* C9: readExistingConfig raises on no content of ANTHROPIC_CUSTOM_HEADERS,
\* and content with neither an x-portkey-provider: nor an x-portkey-config:
\* token, the empty line included, is read as the unknown (empty) mode with an
\* empty provider and an empty config id.
C9_NeitherTokenIsUnknownNeverRaises ==
    existing.called =>
        /\ ~existing.threw
        /\ (existing.found
              /\ ~Includes(existing.headers, XPortkeyProvider)
              /\ ~Includes(existing.headers, XPortkeyConfig)) =>
               /\ existing.mode = ""
               /\ existing.provider = <<>>
               /\ existing.configId = <<>>

----------------------------------------------------------------------------
(* Claims about the header setup writes and readExistingConfig reads back *)

\* the run has written its configuration
Written == run.started /\ run.outcome = "written"

\* the ANTHROPIC_CUSTOM_HEADERS value in the file the run has written
WrittenHeaders ==
    IF run.location = "env"
    THEN LET block == files[run.targetFile].items[Len(files[run.targetFile].items)]
             at == CHOOSE i \in 1..Len(block.exports) :
                       block.exports[i].name = "ANTHROPIC_CUSTOM_HEADERS"
         IN  block.exports[at].value
    ELSE jsonRead(files, run.targetFile, <<"env", "ANTHROPIC_CUSTOM_HEADERS">>).s

\* what readExistingConfig returns in the current state
ReadBack == readExistingConfig(files, gitDirs, claudeDirs)

\* the run has written to a settings file and readExistingConfig reads that file
ReadsBackWritten ==
    /\ Written
    /\ run.location # "env"
    /\ ~ReadBack.threw
    /\ ReadBack.found
    /\ ReadBack.filePath = run.targetFile

\* C3: the provider header setup writes, read back by readExistingConfig,
\* gives mode provider and the slug setup was given with its leading @
\* characters removed, for every slug setup accepts.
C3_ProviderRoundTrip ==
    (ReadsBackWritten /\ run.mode = "provider") =>
        /\ ReadBack.mode = "provider"
        /\ ReadBack.provider = StripLeadingAts(run.slugInput)

\* C4: for every config id setup accepts the header written is
\* x-portkey-config:<id> with the id untransformed, and it is read back as
\* mode config with the same id.
C4_ConfigRoundTrip ==
    (Written /\ run.mode = "config") =>
        /\ WrittenHeaders = XPortkeyConfig \o run.configId
        /\ ReadsBackWritten =>
               /\ ReadBack.mode = "config"
               /\ ReadBack.configId = run.configId

\* C5: the oauth header read back gives mode oauth and the list of forwarded
\* header names of the base64 JSON in its config token, and the result does
\* not hold the Portkey API key.
C5_OauthReadBack ==
    (ReadsBackWritten /\ run.mode = "oauth") =>
        /\ ReadBack.mode = "oauth"
        /\ "forwardHeaders" \in DOMAIN ReadBack
        /\ ReadBack.forwardHeaders = ForwardedHeaderNames
        /\ ReadBack.portkeyKey # Str(run.portkeyKey)
        /\ ~Includes(ReadBack.headers, run.portkeyKey)

\* C6: a run of setup that writes has a provider slug that is not empty in
\* provider mode, a config id that is not empty in config mode, and a Portkey
\* key that is not empty in oauth mode; a run without one ends without a write.
C6_NoHeaderWithoutItsValue ==
    Written =>
        /\ run.mode = "provider" => run.providerSlug # <<>>
        /\ run.mode = "config" => run.configId # <<>>
        /\ run.mode = "oauth" => run.portkeyKey # <<>>

IsProviderHeader(h) == StartsWith(h, XPortkeyProvider) /\ ~Includes(h, <<"\n">>)
IsConfigHeader(h) == StartsWith(h, XPortkeyConfig) /\ ~Includes(h, <<"\n">>)
IsOauthHeader(h) ==
    h = XPortkeyApiKey \o run.portkeyKey \o <<"\n">> \o XPortkeyConfig \o ConfigB64

\* C10: every header setup writes encodes exactly one routing variant: the
\* two tokens x-portkey-api-key:<key> and x-portkey-config:<base64 JSON>
\* separated by a newline for oauth, one x-portkey-provider: token for
\* provider, one x-portkey-config: token for config.
C10_OneRoutingVariant ==
    Written =>
        LET h == WrittenHeaders
        IN  /\ Cardinality({ form \in { "provider", "config", "oauth" } :
                    CASE form = "provider" -> IsProviderHeader(h)
                      [] form = "config" -> IsConfigHeader(h)
                      [] form = "oauth" -> IsOauthHeader(h) }) = 1
            /\ run.mode = "provider" => IsProviderHeader(h)
            /\ run.mode = "config" => IsConfigHeader(h)
            /\ run.mode = "oauth" => IsOauthHeader(h)

----------------------------------------------------------------------------
(* Claims about what a setup run writes, and when *)

\* the step of a run that ends it with a write
WriteStep == pc = "finish" /\ pc' = "done" /\ run'.outcome = "written"

\* the strings the files of fs hold: the values of the members of the env
\* object and of the top-level members of a settings document, and the
\* values a shell rc file exports
StringsOfObject(v) ==
    IF v.t = "obj" THEN { v.o[n].s : n \in { m \in DOMAIN v.o : v.o[m].t = "str" } } ELSE {}
FileStrings(fs) ==
    UNION { CASE fs[p].k = "json" ->
                    StringsOfObject(fs[p].v) \cup StringsOfObject(JsonGet(fs[p].v, "env"))
              [] fs[p].k = "text" ->
                    UNION { { item.exports[i].value : i \in 1..Len(item.exports) } :
                              item \in { fs[p].items[j] :
                                  j \in { l \in 1..Len(fs[p].items) : fs[p].items[l].portkey } } }
              [] OTHER -> {}
            : p \in DOMAIN fs }

\* C11: the Anthropic key given to a setup run in oauth mode is in no file
\* after the write and not in the header written, and the files after the
\* write are those the same run writes with any other Anthropic key.
C11_UpstreamKeyNotWritten ==
    [][(WriteStep /\ run'.mode = "oauth") =>
          /\ run'.anthropicKey # <<>>
          /\ \A k \in AnthropicKeys :
                 files' = FilesWritten(files, [run' EXCEPT !.anthropicKey = k])
          /\ \A str \in FileStrings(files') \cup { run'.resolvedHeaders } :
                 ~Includes(str, run'.anthropicKey)]_vars

\* C11 witness: an oauth run given the second Anthropic key has written its
\* variables to the shell rc file
C11_Witness ==
    /\ Written
    /\ run.mode = "oauth"
    /\ run.anthropicKey = AnthropicKeyB
    /\ run.location = "env"
    /\ WrittenHeaders = XPortkeyApiKey \o run.portkeyKey \o <<"\n">> \o XPortkeyConfig \o ConfigB64

----------------------------------------------------------------------------
(* SpecRead: jsonRead over drawn files.  One settings file is missing, is  *)
(* no JSON, or holds a drawn JSON document; jsonRead is called with the    *)
(* key paths the commands read and with one that goes a level deeper.      *)

\* values of the member ANTHROPIC_BASE_URL of env
DrawnMembers == { Null, Str(<<>>), Str(PORTKEY_GATEWAY), Num(0), EmptyObject,
                  Obj([x |-> Str(<<"v">>)]) }

\* values of the member env of a settings document
DrawnEnvs ==
    { Null, Num(7), Str(<<"e">>), EmptyObject }
        \cup { Obj([ANTHROPIC_BASE_URL |-> v]) : v \in DrawnMembers }

\* what fs.readFileSync and JSON.parse find in the file
DrawnContents ==
    { Missing, Garbage, Doc(Null), Doc(Num(7)), Doc(Str(<<"d">>)), Doc(EmptyObject),
      Doc(Obj([model |-> Str(SonnetWord)])) }
        \cup { Doc(Obj([env |-> e])) : e \in DrawnEnvs }
        \cup { Doc(Obj([env |-> Obj([ANTHROPIC_BASE_URL |-> Str(PORTKEY_GATEWAY)]),
                        model |-> Str(SonnetWord)])) }

ReadPaths == { getSettingsPath("global", Cwd), getSettingsPath("project-local", Cwd) }

KeyPaths == { <<"model">>, <<"env">>, <<"env", "ANTHROPIC_BASE_URL">>,
              <<"env", "ANTHROPIC_BASE_URL", "x">> }

InitRead ==
    /\ \E at \in ReadPaths, content \in DrawnContents :
          files = [p \in AllPaths |->
                      IF p = at THEN content
                      ELSE IF p = detectShellRc THEN Text(<<>>)
                      ELSE Missing]
    /\ env = EmptyEnv
    /\ gitDirs = { Cwd }
    /\ claudeDirs = ClaudeDirsOf(files)
    /\ pc = "idle"
    /\ args = NoArgs
    /\ run = NoRun
    /\ existing = NoExisting
    /\ report = NoReport
    /\ probe = NoProbe
    /\ commands = 0

\* a call of jsonRead
JsonReadCall ==
    /\ pc = "idle"
    /\ \E filePath \in ReadPaths, keyPath \in KeyPaths :
          probe' = [op |-> "jsonRead", filePath |-> filePath, keyPath |-> keyPath,
                    result |-> jsonRead(files, filePath, keyPath)]
    /\ UNCHANGED <<files, env, gitDirs, claudeDirs, pc, args, run, existing, report, commands>>

NextRead == JsonReadCall

SpecRead == InitRead /\ [][NextRead]_vars

\* the JSON value v has a member at every step of keyPath
RECURSIVE HasPath(_, _)
HasPath(v, keyPath) ==
    \/ keyPath = <<>>
    \/ /\ v.t = "obj"
       /\ Head(keyPath) \in DOMAIN v.o
       /\ HasPath(v.o[Head(keyPath)], Tail(keyPath))

\* C12: jsonRead never raises; it returns undefined when the file is
\* missing, when it is no JSON, and when the document has no member at some
\* step of the key path (an intermediate that is null or no object
\* included); the call leaves the files as they were.
C12_JsonReadAbsentNeverRaises ==
    [][(probe' # probe /\ probe'.op = "jsonRead") =>
          /\ probe'.result # Raised
          /\ (files[probe'.filePath].k # "json"
                  \/ ~HasPath(files[probe'.filePath].v, probe'.keyPath))
                => probe'.result = Undefined
          /\ files' = files]_vars

\* C12 witness: env.ANTHROPIC_BASE_URL has been read from a document whose
\* env member is null, and the call returned undefined
C12_Witness ==
    /\ probe.op = "jsonRead"
    /\ files[probe.filePath] = Doc(Obj([env |-> Null]))
    /\ probe.keyPath = <<"env", "ANTHROPIC_BASE_URL">>
    /\ probe.result = Undefined

----------------------------------------------------------------------------
(* SpecRoot: findProjectRoot over drawn directories.  Any of the            *)
(* directories from the filesystem root down to a subdirectory of the      *)
(* working directory may hold a .git entry, a .claude entry, or both; the  *)
(* walk starts at any of them.                                             *)

WalkDirs == { <<>>, dirname(Home), Home, Cwd, Cwd \o <<"sub">> }

InitRoot ==
    /\ files = [p \in AllPaths |-> IF p = detectShellRc THEN Text(<<>>) ELSE Missing]
    /\ env = EmptyEnv
    /\ gitDirs \in SUBSET WalkDirs
    /\ claudeDirs \in SUBSET WalkDirs
    /\ pc = "idle"
    /\ args = NoArgs
    /\ run = NoRun
    /\ existing = NoExisting
    /\ report = NoReport
    /\ probe = NoProbe
    /\ commands = 0

\* a call of findProjectRoot(startDir)
FindProjectRootCall ==
    /\ pc = "idle"
    /\ \E startDir \in WalkDirs :
          probe' = [op |-> "findProjectRoot", startDir |-> startDir,
                    result |-> findProjectRootFrom(startDir, gitDirs, claudeDirs)]
    /\ UNCHANGED <<files, env, gitDirs, claudeDirs, pc, args, run, existing, report, commands>>

NextRoot == FindProjectRootCall

SpecRoot == InitRoot /\ [][NextRoot]_vars

\* the directory holds a .git entry, or a .claude entry and is not the home
\* directory
Qualifies(d) == d \in gitDirs \/ (d \in claudeDirs /\ d # Home)

\* the directories from startDir upward that are below the filesystem root
\* and qualify, by their depth
QualifyingDepths(startDir) ==
    { n \in 1..Len(startDir) : Qualifies(SubSeq(startDir, 1, n)) }

\* C14: findProjectRoot returns the nearest directory, from the start
\* directory upward and the start directory included, that holds a .git
\* entry or that holds a .claude entry and is not the home directory; it
\* returns null when no directory below the filesystem root does.
C14_NearestQualifyingDirectory ==
    probe.op = "findProjectRoot" =>
        LET depths == QualifyingDepths(probe.startDir)
        IN  IF depths = {} THEN probe.result = NoPath
            ELSE /\ probe.result # NoPath
                 /\ Len(probe.result) \in depths
                 /\ probe.result = SubSeq(probe.startDir, 1, Len(probe.result))
                 /\ \A n \in depths : n <= Len(probe.result)

\* C14 witness: a walk from below the working directory has passed the home
\* directory, which holds a .claude entry only, and has returned the
\* directory above it, which holds a .git entry
C14_Witness ==
    /\ probe.op = "findProjectRoot"
    /\ probe.startDir = Cwd \o <<"sub">>
    /\ Home \in claudeDirs
    /\ Home \notin gitDirs
    /\ probe.result = dirname(Home)

----------------------------------------------------------------------------
(* SpecRuns: setup runs and uninstall runs, one after the other, on a      *)
(* machine that starts without a Portkey configuration.  The runs draw     *)
(* from one value of each kind and the setup runs are given --yes, so that *)
(* the contents the files go through stay few while every routing mode and *)
(* every location is written.                                              *)

FewInputs ==
    [runFlags |-> { f \in RunFlags : f.yes /\ ~f.dryRun }, keys |-> { KeyA },
     gatewayFlags |-> {}, typedGateways |-> {},
     modeFlags |-> { "", "oauth" }, slugs |-> { <<"a">> },
     configIds |-> { PcPrefix \o <<"1">> },
     listedProviders |-> {}, anthropicKeys |-> { AnthropicKey },
     locationFlags |-> LocationFlags,
     modelFlags |-> { f \in ModelFlags : f.opus = <<>> /\ f.model = <<>> },
     modelLists |-> { <<>> }]

InitRuns ==
    /\ files = EarlierFiles("none", "global")
    /\ env \in { EmptyEnv, [n \in { "ANTHROPIC_API_KEY" } |-> AnthropicKey] }
    /\ gitDirs \in { {}, { Cwd } }
    /\ claudeDirs = ClaudeDirsOf(files)
    /\ pc = "idle"
    /\ args = NoArgs
    /\ run = NoRun
    /\ existing = NoExisting
    /\ report = NoReport
    /\ probe = NoProbe
    /\ commands = 0

NextRuns ==
    \/ commands < MaxCommands /\ SetupStart(FewInputs)
    \/ SetupPortkeyKey(FewInputs)
    \/ SetupGateway(FewInputs)
    \/ SetupRouting(FewInputs)
    \/ SetupLocation(FewInputs)
    \/ SetupFinish(FewInputs)
    \/ commands < MaxCommands /\ DoUninstall
    \/ CommandReturns

SpecRuns == InitRuns /\ [][NextRuns]_vars

----------------------------------------------------------------------------
(* Claims about the location a setup run writes to *)

\* C16: after a setup run has written its configuration, to whatever
\* location, readExistingConfig reports a configuration found, with the mode
\* of the run and with its provider slug or its config id.
C16_ReadBackFromAnyLocation ==
    Written =>
        /\ ~ReadBack.threw
        /\ ReadBack.found
        /\ ReadBack.mode = run.mode
        /\ run.mode = "provider" => ReadBack.provider = run.providerSlug
        /\ run.mode = "config" => ReadBack.configId = run.configId

\* the file is the settings.json of a .claude directory
IsSettingsJson(filePath) ==
    /\ Len(filePath) >= 2
    /\ filePath[Len(filePath)] = "settings.json"
    /\ filePath[Len(filePath) - 1] = ".claude"

\* C17: a setup run with --yes and without --location, on a machine where
\* no configuration is found, writes its variables into a settings.json of
\* Claude Code and not as variables the shell rc file exports.
C17_DefaultLocationIsSettingsJson ==
    (Written /\ args.yes /\ run.argLocation = "" /\ ~existing.found) =>
        /\ run.location # "env"
        /\ IsSettingsJson(run.targetFile)
        /\ files[run.targetFile].k = "json"
        /\ Truthy(jsonRead(files, run.targetFile, <<"env", "ANTHROPIC_BASE_URL">>))

\* C18: after a setup run in provider mode has written to a settings file,
\* the env object of that file holds the gateway as ANTHROPIC_BASE_URL, the
\* Portkey API key as ANTHROPIC_AUTH_TOKEN and x-portkey-provider:@ followed
\* by the provider slug as ANTHROPIC_CUSTOM_HEADERS, and the file has a
\* top-level model member, the model chosen, exactly when a model was chosen.
C18_ProviderSettingsWritten ==
    (Written /\ run.mode = "provider" /\ run.location # "env") =>
        /\ jsonRead(files, run.targetFile, <<"env", "ANTHROPIC_BASE_URL">>) = Str(run.gateway)
        /\ jsonRead(files, run.targetFile, <<"env", "ANTHROPIC_AUTH_TOKEN">>)
               = Str(run.portkeyKey)
        /\ jsonRead(files, run.targetFile, <<"env", "ANTHROPIC_CUSTOM_HEADERS">>)
               = Str(XPortkeyProvider \o <<"@">> \o run.providerSlug)
        /\ jsonRead(files, run.targetFile, <<"model">>)
               = IF run.model # <<>> THEN Str(run.model) ELSE Undefined

\* C19: a setup run changes the settings files, the shell rc file and the
\* .claude directories in its write step only, which it takes ready and
\* without --dry-run; a dry run, a run cancelled at a prompt and an oauth run
\* refused for its missing Anthropic key end with every file as it was.
C19_FilesChangeOnlyInWriteStep ==
    [][/\ (files' # files \/ claudeDirs' # claudeDirs) =>
              (WriteStep /\ run'.ready /\ ~args.dryRun)
       /\ (pc' = "done" /\ run'.outcome \in { "dry-run", "cancelled", "refused", "threw" }) =>
              (files' = files /\ claudeDirs' = claudeDirs)]_vars

\* C19 witness: a dry run has resolved the file it would write and has
\* ended, and the files are those of a machine before the run
C19_Witness ==
    /\ run.started
    /\ run.outcome = "dry-run"
    /\ args.dryRun
    /\ run.targetFile # NoPath
    /\ \E m \in Machines : files = EarlierFiles(m.routing, m.layer)

\* C20: a setup run whose provider is known to be of a Bedrock or Vertex
\* type writes only with a default model or with model mappings set; with
\* --yes it writes with the three mappings set, none of them empty, and the
\* file written holds them.
C20_BedrockNeedsModels ==
    (Written /\ run.providerType \in BEDROCK_VERTEX_TYPES) =>
        /\ run.model # <<>> \/ run.setModelMappings
        /\ args.yes =>
               /\ run.setModelMappings
               /\ run.opusModel # <<>> /\ run.sonnetModel # <<>> /\ run.haikuModel # <<>>
               /\ { run.opusModel, run.sonnetModel, run.haikuModel }
                      \subseteq FileStrings([p \in { run.targetFile } |-> files[p]])

\* C20 witness: a run with --yes for a listed Bedrock provider has written
\* the Opus model the gateway lists and the default Sonnet and Haiku models
\* as its mappings, none of them given on the command line
C20_Witness ==
    /\ Written
    /\ args.yes
    /\ run.providerType = Bedrock
    /\ run.setModelMappings
    /\ run.opusModel = <<"X", "-", "O", "p", "u", "s">>
    /\ run.sonnetModel = DefaultSonnetModel
    /\ run.haikuModel = DefaultHaikuModel

----------------------------------------------------------------------------
(* SpecLayers: readExistingConfig over settings files that each define any *)
(* of the base URL, the auth token, the custom headers and the model, each *)
(* layer with values of its own.                                           *)

ReadLayers == <<"project-local", "project-shared", "global">>

ReadVariables ==
    { "ANTHROPIC_BASE_URL", "ANTHROPIC_AUTH_TOKEN", "ANTHROPIC_CUSTOM_HEADERS", "model" }

\* the letter that marks the values of a layer
LayerTag(layer) ==
    CASE layer = "project-local" -> "L"
      [] layer = "project-shared" -> "S"
      [] OTHER -> "G"

\* the value the file of the layer holds for the variable, when it defines it
LayerHolds(layer, variable) ==
    CASE variable = "ANTHROPIC_BASE_URL" -> <<"g", "w", LayerTag(layer)>>
      [] variable = "ANTHROPIC_AUTH_TOKEN" -> <<"p", "k", LayerTag(layer)>>
      [] variable = "ANTHROPIC_CUSTOM_HEADERS" -> XPortkeyProvider \o <<"@", LayerTag(layer)>>
      [] OTHER -> <<"m", LayerTag(layer)>>

\* the settings file of a layer that defines the variables of defined
LayerFile(layer, defined) ==
    IF defined = {} THEN Missing
    ELSE LET envObj == Obj([v \in defined \ { "model" } |-> Str(LayerHolds(layer, v))])
         IN  Doc(Obj(IF "model" \in defined
                     THEN [env |-> envObj, model |-> Str(LayerHolds(layer, "model"))]
                     ELSE [env |-> envObj]))

InitLayers ==
    /\ \E defined \in [{ "project-local", "project-shared", "global" } -> SUBSET ReadVariables] :
          files = [p \in AllPaths |->
                      IF p = detectShellRc THEN Text(<<>>)
                      ELSE IF \E i \in 1..3 : p = getSettingsPath(ReadLayers[i], Cwd)
                      THEN LET layer == ReadLayers[CHOOSE i \in 1..3 :
                                            p = getSettingsPath(ReadLayers[i], Cwd)]
                           IN  LayerFile(layer, defined[layer])
                      ELSE Missing]
    /\ env = EmptyEnv
    /\ gitDirs = { Cwd }
    /\ claudeDirs = ClaudeDirsOf(files)
    /\ pc = "idle"
    /\ args = NoArgs
    /\ run = NoRun
    /\ existing = NoExisting
    /\ report = NoReport
    /\ probe = NoProbe
    /\ commands = 0

NextLayers == ReadExisting

SpecLayers == InitLayers /\ [][NextLayers]_vars

\* the layers, by their place in ReadLayers, whose file defines the variable
DefiningLayers(variable) ==
    { i \in 1..3 :
        LET f == files[getSettingsPath(ReadLayers[i], Cwd)]
        IN  /\ f.k = "json"
            /\ IF variable = "model" THEN "model" \in DOMAIN f.v.o
               ELSE variable \in DOMAIN f.v.o["env"].o }

\* the first of them in the order project-local, project-shared, global
TopDefining(variable) ==
    ReadLayers[CHOOSE i \in DefiningLayers(variable) :
                   \A j \in DefiningLayers(variable) : i <= j]

\* what readExistingConfig has returned for the variable
Returned(variable) ==
    CASE variable = "ANTHROPIC_BASE_URL" -> existing.gateway
      [] variable = "ANTHROPIC_AUTH_TOKEN" -> existing.portkeyKey
      [] variable = "ANTHROPIC_CUSTOM_HEADERS" -> Str(existing.headers)
      [] OTHER -> existing.model

\* C21: when readExistingConfig finds a configuration, then for each of the
\* gateway, the auth token, the custom headers and the model that some
\* settings file defines it returns the value of the first layer, in the
\* order project-local, project-shared, global, whose file defines that
\* variable.
C21_HighestLayerPerVariable ==
    (existing.called /\ ~existing.threw /\ existing.found) =>
        \A variable \in ReadVariables :
            DefiningLayers(variable) # {} =>
                Returned(variable) = Str(LayerHolds(TopDefining(variable), variable))

----------------------------------------------------------------------------
(* Claims about the readers of the layers agreeing with each other *)

\* C22: for a variable whose winner the Variable Resolution note of discover
\* reports, the Routing Health note of discover and verify take its value
\* from the layer of that winner: the base URL and the custom headers of
\* Routing Health and the custom headers of verify are the value of the
\* winning layer.
C22_OneAuthoritativeValue ==
    (report.ran /\ ~report.raised) =>
        LET root == findProjectRoot(gitDirs, claudeDirs)
            winning(v) == Str(LayerValue(report.resolution[v].wsrc, v))
        IN  /\ report.resolution["ANTHROPIC_BASE_URL"].wsrc # "" =>
                   HealthBase(files, env, root) = winning("ANTHROPIC_BASE_URL")
            /\ report.resolution["ANTHROPIC_CUSTOM_HEADERS"].wsrc # "" =>
                   /\ HealthHdrs(files, env, root) = winning("ANTHROPIC_CUSTOM_HEADERS")
                   /\ VerifyCustomHeaders(files, env, root)
                          = winning("ANTHROPIC_CUSTOM_HEADERS")

----------------------------------------------------------------------------
(* SpecLayout: doDiscover over directory layouts.  One settings file, in   *)
(* the .claude directory of the working directory, of the home directory   *)
(* or of the directory above it, defines one variable; any of the three    *)
(* directories may hold a .git entry.                                      *)

InitLayout ==
    /\ \E at \in SettingsPaths, subject \in SubjectVars :
          files = [p \in AllPaths |->
                      IF p = at THEN Doc(Obj([env |-> Obj([v \in { subject } |-> Str(ValY)])]))
                      ELSE IF p = detectShellRc THEN Text(<<>>)
                      ELSE Missing]
    /\ env = EmptyEnv
    /\ gitDirs \in SUBSET RootDirs
    /\ claudeDirs = ClaudeDirsOf(files)
    /\ pc = "idle"
    /\ args = NoArgs
    /\ run = NoRun
    /\ existing = NoExisting
    /\ report = NoReport
    /\ probe = NoProbe
    /\ commands = 0

NextLayout == DoDiscover

SpecLayout == InitLayout /\ [][NextLayout]_vars

\* C23: in every directory layout the file-backed layers that have a path
\* have pairwise distinct paths, and a variable that a single file defines
\* is reported by discover with at most one source and without a conflict.
C23_LayersHaveDistinctFiles ==
    report.ran =>
        /\ \A i, j \in 1..Len(LAYERS) :
               LET fi == getConfigPath(files, LAYERS[i], report.projectRoot)
                   fj == getConfigPath(files, LAYERS[j], report.projectRoot)
               IN  (i # j /\ fi # NoPath) => fi # fj
        /\ \A v \in VarNames :
               /\ Len(report.resolution[v].sources) <= 1
               /\ ~report.resolution[v].conflicting

----------------------------------------------------------------------------
(* SpecModels: setup runs and uninstall runs, one after the other, as in   *)
(* SpecRuns, with the setup runs in provider mode, to the global or the    *)
(* project-shared settings file, and with or without --model and           *)
(* --opus-model.                                                           *)

ModelInputs ==
    [runFlags |-> { f \in RunFlags : f.yes /\ ~f.dryRun }, keys |-> { KeyA },
     gatewayFlags |-> {}, typedGateways |-> {},
     modeFlags |-> { "" }, slugs |-> { <<"a">> }, configIds |-> {},
     listedProviders |-> {}, anthropicKeys |-> {},
     locationFlags |-> { "global", "project-shared" },
     modelFlags |-> ModelFlags, modelLists |-> { <<>> }]

NextModels ==
    \/ commands < MaxCommands /\ SetupStart(ModelInputs)
    \/ SetupPortkeyKey(ModelInputs)
    \/ SetupGateway(ModelInputs)
    \/ SetupRouting(ModelInputs)
    \/ SetupLocation(ModelInputs)
    \/ SetupFinish(ModelInputs)
    \/ commands < MaxCommands /\ DoUninstall
    \/ CommandReturns

SpecModels == InitRuns /\ [][NextModels]_vars

----------------------------------------------------------------------------
(* Claims about what uninstall and later setup runs leave in a file *)

\* the names of the three model mappings
MappingNames ==
    { "ANTHROPIC_DEFAULT_OPUS_MODEL", "ANTHROPIC_DEFAULT_SONNET_MODEL",
      "ANTHROPIC_DEFAULT_HAIKU_MODEL" }

\* the members of the env object of the settings file, none when it has none
EnvMembers(filePath) ==
    LET envObj == jsonRead(files, filePath, <<"env">>)
    IN  IF envObj.t = "obj" THEN DOMAIN envObj.o ELSE {}

\* C24: after an uninstall run with --yes that follows setup runs on a
\* machine that had no settings file, no settings file holds a key setup
\* added: none of the env keys of setup and no top-level model key.
C24_UninstallRemovesWhatSetupAdded ==
    (pc = "uninstalled" /\ args.yes) =>
        \A p \in SettingsPaths :
            files[p].k = "json" =>
                /\ EnvMembers(p) \cap ENV_KEYS_TO_REMOVE = {}
                /\ jsonRead(files, p, <<"model">>) = Undefined

\* C25: after a setup run has written to a settings file, the env object of
\* that file holds the three model mappings when the run set model mappings
\* and none of them when it did not, whatever earlier runs wrote.
C25_MappingsOfThisRunOnly ==
    (Written /\ run.location # "env") =>
        EnvMembers(run.targetFile) \cap MappingNames
            = IF run.setModelMappings THEN MappingNames ELSE {}

\* the values the file a run has written holds for the three model mappings
WrittenMappings ==
    IF run.location = "env"
    THEN LET block == files[run.targetFile].items[Len(files[run.targetFile].items)]
         IN  { block.exports[i].value :
                 i \in { j \in 1..Len(block.exports) : block.exports[j].name \in MappingNames } }
    ELSE { jsonRead(files, run.targetFile, <<"env", n>>).s :
             n \in EnvMembers(run.targetFile) \cap MappingNames }

\* C26: when a setup run writes model mappings, to a settings file or to the
\* shell rc file, each of the three values it writes, for opus, for sonnet
\* and for haiku, is a model name that is not empty.
C26_MappingsNotEmpty ==
    (Written /\ run.setModelMappings) =>
        /\ WrittenMappings # {}
        /\ <<>> \notin WrittenMappings

----------------------------------------------------------------------------
(* Claims about the three readers of a header line *)

\* the routing kinds the three readers give for the header line in the
\* files: readExistingConfig, doVerify and doDiscover
ReaderKinds ==
    LET root == findProjectRoot(gitDirs, claudeDirs)
    IN  << existing.mode,
           VerifyRouting(VerifyCustomHeaders(files, env, root)).kind,
           HealthRouting(HealthHdrs(files, env, root)).kind >>

\* C27: readExistingConfig, doVerify and doDiscover give the same routing
\* kind for a header line: when two of them say provider or config for the
\* line, they say the same, also for a line that carries both tokens.
C27_ReadersAgreeOnKind ==
    (existing # NoExisting /\ existing.found) =>
        \A i \in 1..3, j \in 1..3 :
            ({ ReaderKinds[i], ReaderKinds[j] } \subseteq { "provider", "config" })
                => ReaderKinds[i] = ReaderKinds[j]

----------------------------------------------------------------------------
(* SpecSettings: calls of settingsSetEnv, settingsSetKey and               *)
(* settingsRemoveKeys, one after the other, on one settings file that is   *)
(* missing, no JSON, or a JSON object with or without the members env,     *)
(* model and permissions.                                                  *)

SettingsFile == getSettingsPath("global", Cwd)

\* values of the member env: objects with an entry uninstall removes, with an
\* entry it does not, with both, with none, and values that are no object
SettingsEnvs ==
    { Null, Num(7), Str(<<"e">>) }
        \cup { Obj([n \in ns |-> Str(ValX)]) : ns \in SUBSET { "ANTHROPIC_BASE_URL", "EDITOR" } }

SettingsDocuments ==
    { Doc(Obj([n \in ns |-> CASE n = "env" -> e
                               [] n = "model" -> Str(SonnetWord)
                               [] OTHER -> EmptyObject])) :
        ns \in SUBSET { "env", "model", "permissions" }, e \in SettingsEnvs }

DrawnPairs ==
    { [ANTHROPIC_BASE_URL |-> Str(ValY)],
      [ANTHROPIC_BASE_URL |-> Str(ValY), ANTHROPIC_AUTH_TOKEN |-> Str(KeyA)] }

InitSettings ==
    /\ \E content \in { Missing, Garbage } \cup SettingsDocuments :
          files = [p \in AllPaths |->
                      IF p = SettingsFile THEN content
                      ELSE IF p = detectShellRc THEN Text(<<>>)
                      ELSE Missing]
    /\ env = EmptyEnv
    /\ gitDirs = { Cwd }
    /\ claudeDirs = ClaudeDirsOf(files)
    /\ pc = "idle"
    /\ args = NoArgs
    /\ run = NoRun
    /\ existing = NoExisting
    /\ report = NoReport
    /\ probe = NoProbe
    /\ commands = 0

\* a call of settingsSetEnv
SettingsSetEnvCall ==
    /\ commands < MaxCommands
    /\ \E pairs \in DrawnPairs :
          /\ files' = settingsSetEnv(files, SettingsFile, pairs)
          /\ probe' = [op |-> "settingsSetEnv", before |-> files[SettingsFile],
                       pairs |-> pairs]
    /\ claudeDirs' = WithClaudeDirOf(claudeDirs, SettingsFile)
    /\ commands' = commands + 1
    /\ UNCHANGED <<env, gitDirs, pc, args, run, existing, report>>

\* a call of settingsSetKey
SettingsSetKeyCall ==
    /\ commands < MaxCommands
    /\ \E key \in { "model", "env" }, value \in { Str(OpusWord), EmptyObject } :
          /\ files' = settingsSetKey(files, SettingsFile, key, value)
          /\ probe' = [op |-> "settingsSetKey", before |-> files[SettingsFile],
                       key |-> key, value |-> value]
    /\ claudeDirs' = WithClaudeDirOf(claudeDirs, SettingsFile)
    /\ commands' = commands + 1
    /\ UNCHANGED <<env, gitDirs, pc, args, run, existing, report>>

\* a call of settingsRemoveKeys
SettingsRemoveKeysCall ==
    /\ commands < MaxCommands
    /\ \E envKeys \in { ENV_KEYS_TO_REMOVE, { "ANTHROPIC_AUTH_TOKEN" } } :
          /\ files' = settingsRemoveKeys(files, SettingsFile, envKeys)
          /\ probe' = [op |-> "settingsRemoveKeys", before |-> files[SettingsFile],
                       envKeys |-> envKeys]
    /\ commands' = commands + 1
    /\ UNCHANGED <<env, gitDirs, claudeDirs, pc, args, run, existing, report>>

NextSettings ==
    \/ SettingsSetEnvCall
    \/ SettingsSetKeyCall
    \/ SettingsRemoveKeysCall

SpecSettings == InitSettings /\ [][NextSettings]_vars

\* the top-level members of a settings document, and the entries of its env
\* member (none when the file is no JSON, or env no object)
TopMembers(content) ==
    IF content.k = "json" THEN content.v.o ELSE [n \in {} |-> Null]
EnvEntries(content) ==
    IF "env" \in DOMAIN TopMembers(content) /\ TopMembers(content)["env"].t = "obj"
    THEN TopMembers(content)["env"].o ELSE [n \in {} |-> Null]

\* the members of after are those of before, with the same values, but for
\* the names in given
SameBut(before, after, given) ==
    /\ DOMAIN before \ given = DOMAIN after \ given
    /\ \A n \in DOMAIN before \ given : after[n] = before[n]

\* C28: on a settings document that parses, settingsSetEnv leaves every
\* top-level member but env, and every env entry but the pairs it is given,
\* as it was; settingsSetKey leaves every top-level member but its key as it
\* was; settingsRemoveKeys leaves every top-level member but env and every
\* env entry but the listed ones as they were, removes the listed ones, and
\* drops env only when no entry is left; on a file that is missing or no
\* JSON settingsRemoveKeys changes nothing.
C28_SettingsWritesChangeOnlyTheirOwn ==
    LET before == probe.before
        after == files[SettingsFile]
    IN  /\ (probe.op = "settingsSetEnv" /\ before.k = "json") =>
              /\ SameBut(TopMembers(before), TopMembers(after), { "env" })
              /\ SameBut(EnvEntries(before), EnvEntries(after), DOMAIN probe.pairs)
        /\ (probe.op = "settingsSetKey" /\ before.k = "json") =>
              SameBut(TopMembers(before), TopMembers(after), { probe.key })
        /\ (probe.op = "settingsRemoveKeys" /\ before.k = "json") =>
              /\ SameBut(TopMembers(before), TopMembers(after), { "env" })
              /\ SameBut(EnvEntries(before), EnvEntries(after), probe.envKeys)
              /\ DOMAIN EnvEntries(after) \cap probe.envKeys = {}
              /\ "env" \in DOMAIN TopMembers(before) \ DOMAIN TopMembers(after)
                    => DOMAIN EnvEntries(before) \ probe.envKeys = {}
        /\ (probe.op = "settingsRemoveKeys" /\ before.k # "json") => after = before

\* C28 witness: settingsSetEnv has been called on a document that had an env
\* entry and a top-level member it was not given, and the same for
\* settingsRemoveKeys
C28_Witness ==
    /\ probe.op \in { "settingsSetEnv", "settingsRemoveKeys" }
    /\ probe.before.k = "json"
    /\ "EDITOR" \in DOMAIN EnvEntries(probe.before)
    /\ "ANTHROPIC_BASE_URL" \in DOMAIN EnvEntries(probe.before)
    /\ "model" \in DOMAIN TopMembers(probe.before)
    /\ "EDITOR" \in DOMAIN EnvEntries(files[SettingsFile])

----------------------------------------------------------------------------
(* The text of a shell rc file, line by line.  In SpecShellRc the items of *)
(* the file are its newlines and what stands between them: the opening     *)
(* comment of a Portkey block, its closing comment, a line that sets a     *)
(* variable, or a line of the user.                                        *)

Newline == [portkey |-> FALSE, c |-> "newline"]
StartMarker == [portkey |-> TRUE, c |-> "start"]
EndMarker == [portkey |-> TRUE, c |-> "end"]
ExportLine(name, value) == [portkey |-> TRUE, c |-> "export", name |-> name, value |-> value]
UserText(n) == [portkey |-> FALSE, c |-> "user", n |-> n]

\* lines.join("\n") of setup.js: the opening comment, a line for each
\* variable, the closing comment
BlockLines(exports) ==
    <<StartMarker>>
        \o Join([i \in 1..Len(exports) |->
                    <<Newline, ExportLine(exports[i].name, exports[i].value)>>], <<>>)
        \o <<Newline, EndMarker>>

\* content.replace of a pattern that matches nothing
RemoveNoBlocks(content) == content

\* content.replace(/\n?# -- Portkey \+ Claude Code[\s\S]*?# -- End Portkey \+
\* Claude Code --\n?/g, ""): from the left, every stretch from an opening
\* comment to the first closing comment after it, with the newline before
\* it and the newline after it when there is one
RECURSIVE RemoveBlocks(_)
RemoveBlocks(content) ==
    IF content = <<>> THEN <<>>
    ELSE LET startAt == IF Len(content) >= 2 /\ content[1] = Newline
                                             /\ content[2] = StartMarker THEN 2
                        ELSE IF content[1] = StartMarker THEN 1
                        ELSE 0
             ends == { j \in (startAt + 1)..Len(content) : content[j] = EndMarker }
         IN  IF startAt = 0 \/ ends = {}
             THEN <<Head(content)>> \o RemoveBlocks(Tail(content))
             ELSE LET endAt == CHOOSE j \in ends : \A k \in ends : j <= k
                      last == IF endAt < Len(content) /\ content[endAt + 1] = Newline
                              THEN endAt + 1 ELSE endAt
                  IN  RemoveBlocks(SubSeq(content, last + 1, Len(content)))

\* writeShellRc(filePath, block) on the lines of the file
writeShellRcLines(fs, filePath, block) ==
    LET content == IF filePath \in DOMAIN fs /\ fs[filePath].k = "text"
                   THEN fs[filePath].items ELSE <<>>
    IN  [fs EXCEPT ![filePath] =
            Text(RemoveBlocks(content) \o <<Newline>> \o block \o <<Newline>>)]

\* the blocks of the two branches of setup: the variables of a run that
\* writes to the shell rc file, and the token of a run that writes to a
\* settings file
DrawnBlocks ==
    { BlockLines(<< [name |-> "PORTKEY_API_KEY", value |-> KeyA],
                    [name |-> "ANTHROPIC_BASE_URL", value |-> PORTKEY_GATEWAY] >>),
      BlockLines(<< [name |-> "PORTKEY_API_KEY", value |-> KeyA],
                    [name |-> "ANTHROPIC_BASE_URL", value |-> PORTKEY_GATEWAY],
                    [name |-> "ANTHROPIC_MODEL", value |-> OpusWord] >>),
      BlockLines(<< [name |-> "ANTHROPIC_AUTH_TOKEN", value |-> KeyA] >>),
      BlockLines(<< [name |-> "ANTHROPIC_AUTH_TOKEN", value |-> KeyB] >>) }

\* the shell rc file before the calls: missing, empty, lines of the user
\* with or without a newline at the end, and files with one block or two
\* that earlier runs have written, before, between or after lines of the
\* user
DrawnProfiles ==
    LET old == BlockLines(<< [name |-> "ANTHROPIC_AUTH_TOKEN", value |-> ValY] >>)
    IN  { Missing, Text(<<>>), Text(<<UserText(1)>>), Text(<<UserText(1), Newline>>) }
            \cup { Text(<<UserText(1), Newline, Newline>> \o old \o <<Newline>>),
                   Text(old \o <<Newline, UserText(1)>>),
                   Text(<<Newline>> \o old \o <<Newline, UserText(1), Newline, UserText(2), Newline>>),
                   Text(<<UserText(1), Newline>> \o old \o <<Newline, Newline>> \o old
                            \o <<Newline, UserText(2)>>),
                   Text(old \o <<Newline>> \o old) }

InitShellRc ==
    /\ \E profile \in DrawnProfiles :
          files = [p \in AllPaths |-> IF p = detectShellRc THEN profile ELSE Missing]
    /\ env = EmptyEnv
    /\ gitDirs = { Cwd }
    /\ claudeDirs = {}
    /\ pc = "idle"
    /\ args = NoArgs
    /\ run = NoRun
    /\ existing = NoExisting
    /\ report = NoReport
    /\ probe = NoProbe
    /\ commands = 0

\* a call of writeShellRc
WriteShellRcCall ==
    /\ commands < MaxCommands
    /\ \E block \in DrawnBlocks :
          /\ files' = writeShellRcLines(files, detectShellRc, block)
          /\ probe' = [op |-> "writeShellRc", before |-> files[detectShellRc],
                       block |-> block]
    /\ commands' = commands + 1
    /\ UNCHANGED <<env, gitDirs, claudeDirs, pc, args, run, existing, report>>

NextShellRc == WriteShellRcCall

SpecShellRc == InitShellRc /\ [][NextShellRc]_vars

\* how often the item is in the content
Occurrences(content, item) ==
    Cardinality({ i \in 1..Len(content) : content[i] = item })

\* C29: after a call of writeShellRc, whatever calls came before it, the
\* file holds one Portkey block, the block of this call, at its end, and a
\* second call with the same block leaves the file as it is.
C29_OneBlockTheLatest ==
    probe.op = "writeShellRc" =>
        LET content == files[detectShellRc].items
            written == <<Newline>> \o probe.block \o <<Newline>>
        IN  /\ Occurrences(content, StartMarker) = 1
            /\ Occurrences(content, EndMarker) = 1
            /\ Len(content) >= Len(written)
            /\ SubSeq(content, Len(content) - Len(written) + 1, Len(content)) = written
            /\ writeShellRcLines(files, detectShellRc, probe.block) = files

\* C29 witness: writeShellRc has been called a second time, with another
\* block than the one in the file, on a file that has lines of the user
C29_Witness ==
    /\ probe.op = "writeShellRc"
    /\ commands >= 2
    /\ probe.before.k = "text"
    /\ Occurrences(probe.before.items, StartMarker) = 1
    /\ Occurrences(probe.before.items, UserText(1)) = 1
    /\ SubSeq(probe.before.items, Len(probe.before.items) - Len(probe.block),
                 Len(probe.before.items) - 1) # probe.block

====
